---------------------------- MODULE Spec2Model ----------------------------
(***************************************************************************)
(* Job orchestration core of AudioTranscriber (src/app.py): the in-memory  *)
(* progress store `processing_progress`, the two in-memory workers         *)
(* (process_audio_files_directly.process_async and                         *)
(* api_process.process_youtube_async), the durable worker                  *)
(* process_job_worker over ProcessingJob rows, and the status read model   *)
(* api_job_status.                                                         *)
(*                                                                         *)
(* Every write a worker thread makes to a shared record is one step, so a  *)
(* status poll can fall between any two of them.  A durable job is seen by *)
(* a poll only through what db.session.commit() has committed.             *)
(*                                                                         *)
(* Texts are sequences of tokens: the empty sequence is the empty string,  *)
(* and joining keeps the separators, so that emptiness and section counts  *)
(* are those of the Python strings.                                        *)
(***************************************************************************)
EXTENDS Integers, Sequences, FiniteSets, TLC

(***************************************************************************)
(* Bounds of the model.                                                    *)
(***************************************************************************)
\* job identifiers that exist (uuid4 strings / ProcessingJob.id values)
MaxJobs == 2
\* files of one submission, and audio files one YouTube download yields
MaxFiles == 2
\* length in seconds of a media file reported to the progress callback
TotalSeconds == 2

JobIds == 1..MaxJobs

(***************************************************************************)
(* Python values.                                                          *)
(***************************************************************************)
\* None / a present value
None == <<>>
Some(x) == <<x>>
IsNone(o) == o = <<>>
The(o) == o[1]

\* the empty string
EmptyText == <<>>
\* bool(s) of a string
Truthy(text) == Len(text) > 0
\* str(e) of an exception raised by `what`
ExcText(what) == << <<"exc", what>> >>

RECURSIVE Join(_)
\* '\n\n'.join(parts)
Join(parts) ==
    IF Len(parts) = 0 THEN EmptyText
    ELSE IF Len(parts) = 1 THEN parts[1]
    ELSE parts[1] \o << <<"sep", "\n\n">> >> \o Join(Tail(parts))

\* the number of '\n\n'-separated segments of a joined text
Segments(text) == 1 + Cardinality({k \in 1..Len(text) : text[k][1] = "sep"})

VARIABLES
    \* app.py:312, the global dict job_id -> progress record
    processing_progress,
    \* the committed rows of table processing_jobs, id -> row
    db,
    \* the worker's SQLAlchemy session copy of its row (uncommitted attributes)
    job,
    \* what was submitted for each job id
    inp,
    \* where each job is: in its submission's request handler, then in its
    \* worker thread
    pc,
    \* each worker thread's local variables
    loc,
    \* how often each collaborator was called for a job; for generate_output_file
    \* the formats it was called with (render) and returned a file for (rendered)
    calls,
    \* threading.Thread(...).start() calls per job id
    started,
    \* the last response api_job_status gave for each job id
    resp,
    \* app.py:75-86, whether the database answered at start-up
    DB_AVAILABLE,
    \* one call of whisper_client.send_to_whisper: the environment it runs in,
    \* where it is, whether a backend produced a transcription, and how it ended
    whisper,
    \* one call of youtube_processor.get_youtube_transcript, likewise
    extraction,
    \* one request to /api/process-text-with-ai, likewise
    ai_request

\* the calls followed step by step, which no step of a job touches
followed == <<whisper, extraction, ai_request>>

vars == <<processing_progress, db, job, inp, pc, loc, calls, started, resp,
          DB_AVAILABLE, followed>>

(***************************************************************************)
(* Submissions.                                                            *)
(***************************************************************************)
ALLOWED_AUDIO_EXTENSIONS == {"mp3", "wav", "mp4", "mov"}
ALLOWED_DOCUMENT_EXTENSIONS == {"pdf", "docx", "txt"}

\* allowed_file(filename, 'audio') on a file with this extension
allowed_file(ext, file_type) ==
    IF file_type = "audio" THEN ext \in ALLOWED_AUDIO_EXTENSIONS
    ELSE IF file_type = "document" THEN ext \in ALLOWED_DOCUMENT_EXTENSIONS
    ELSE ext \in ALLOWED_AUDIO_EXTENSIONS \cup ALLOWED_DOCUMENT_EXTENSIONS

\* extensions of the uploaded files the model draws from
UploadExtensions == {"mp3", "wav", "pdf"}

RECURSIVE SeqsUpTo(_, _)
SeqsUpTo(S, n) ==
    IF n = 0 THEN {<<>>}
    ELSE LET shorter == SeqsUpTo(S, n - 1)
         IN shorter \cup {Append(s, x) : s \in {t \in shorter : Len(t) = n - 1}, x \in S}

RECURSIVE SelectAllowed(_, _)
\* the files of a submission that pass allowed_file, in order
SelectAllowed(files, file_type) ==
    IF Len(files) = 0 THEN <<>>
    ELSE IF allowed_file(files[1], file_type)
         THEN <<files[1]>> \o SelectAllowed(Tail(files), file_type)
         ELSE SelectAllowed(Tail(files), file_type)

NoInput ==
    [kind |-> "none", files |-> <<>>, job_type |-> "none", input_type |-> "none",
     file_type |-> "none", pull_transcript |-> TRUE, transcribe_audio |-> FALSE,
     llm |-> FALSE, export_markdown |-> FALSE, output_formats |-> <<>>]

\* transcript (how get_youtube_transcript ended), transcribed (how many
\* downloaded media files send_to_whisper returned a text for) and ai (how
\* the AI block of process_job_worker ended) record what happened; the code
\* keeps none of them
NoLocals ==
    [all_transcriptions |-> <<>>, transcript_sources |-> <<>>, cur |-> 0,
     processed |-> 0, exc |-> EmptyText, result_files |-> <<>>, n_audio |-> 0,
     transcribe_audio |-> FALSE, text |-> EmptyText,
     transcript |-> "untried", format |-> 0, transcribed |-> 0, ai |-> "untried"]

NoCalls ==
    [get_youtube_transcript |-> 0, download |-> 0, send_to_whisper |-> 0,
     convert_text_to_speech |-> 0, process_document |-> 0, llm |-> 0,
     render |-> <<>>, rendered |-> <<>>]

\* no call of a collaborator is followed step by step
NoWhisperCall == [at |-> "idle"]

Init ==
    /\ whisper = NoWhisperCall
    /\ extraction = NoWhisperCall
    /\ ai_request = NoWhisperCall
    /\ processing_progress = <<>>
    /\ db = <<>>
    /\ job = [j \in JobIds |-> None]
    /\ inp = [j \in JobIds |-> NoInput]
    /\ pc = [j \in JobIds |-> "unborn"]
    /\ loc = [j \in JobIds |-> NoLocals]
    /\ calls = [j \in JobIds |-> NoCalls]
    /\ started = [j \in JobIds |-> 0]
    /\ resp = [j \in JobIds |-> None]
    /\ DB_AVAILABLE \in BOOLEAN

Goto(j, label) == pc' = [pc EXCEPT ![j] = label]
SetLoc(j, f, v) == loc' = [loc EXCEPT ![j][f] = v]
\* a write that goes to every job's progress record, as it would with one
\* record shared by the workers
SetProgressOfAll(j, f, v) ==
    processing_progress' =
       [k \in DOMAIN processing_progress |-> [processing_progress[k] EXCEPT ![f] = v]]

\* processing_progress[job_id][field] = value
SetProgress(j, f, v) ==
    processing_progress' = [processing_progress EXCEPT ![j][f] = v]
Called(j, f) == calls' = [calls EXCEPT ![j][f] = @ + 1]


(***************************************************************************)
(* Collaborators: what a call can return.                                  *)
(***************************************************************************)
\* send_to_whisper's result['text'] for the n-th file: some text (speech, or
\* the notice _process_locally returns without faster-whisper), or the empty
\* string (silence)
WhisperTexts(n) == { << <<"speech", n>> >>, EmptyText }

\* get_youtube_transcript's text on success: ' '.join(...).strip(), empty for a
\* transcript without entries
TranscriptTexts == { << <<"transcript", "en">> >>, EmptyText }

(***************************************************************************)
(* api_process, multipart branch -> process_audio_files_directly           *)
(***************************************************************************)
\* a record that is born finished
FinishedRecord ==
    [status |-> "completed", progress |-> 100, message |-> <<"Starting...">>,
     result |-> None, file_duration |-> None, processed_duration |-> 0]

\* the record process_audio_files_directly inserts
AudioRecord ==
    [status |-> "processing", progress |-> 0, message |-> <<"Starting...">>,
     result |-> None, file_duration |-> None, processed_duration |-> 0]

\* the input types of the submissions api_process turns away with 400
MalformedInputs == {"file", "youtube", "text", "unsupported"}

\* app.py:586-588 'No files provided' (no file, or a first file without a
\* name), 650-652 'No data provided', 660-662 'Invalid YouTube URL', 736-738
\* 'No text provided', 754-755 'Unsupported input type': 400, nothing is
\* created
api_process_BadRequest(j, input_type) ==
    /\ pc[j] = "unborn"
    /\ j \notin DOMAIN db
    /\ j \notin DOMAIN processing_progress
    /\ inp' = [inp EXCEPT ![j] =
                 [NoInput EXCEPT !.kind = "malformed", !.input_type = input_type]]
    /\ Goto(j, "h_400")
    /\ UNCHANGED <<processing_progress, db, job, loc, calls, started, resp, DB_AVAILABLE, followed>>

\* app.py:586-602 and 319-329, a multipart POST /api/process with these files
\* (their extensions), the first carrying a filename: the record is inserted
\* under a fresh uuid4
process_audio_files_directly(j, files) ==
    /\ pc[j] = "unborn"
    /\ j \notin DOMAIN processing_progress
    /\ Len(files) >= 1
    /\ processing_progress' = processing_progress @@ (j :> AudioRecord)
    /\ inp' = [inp EXCEPT ![j] =
                 [NoInput EXCEPT !.kind = "audio",
                                 !.files = SelectAllowed(files, "audio")]]
    /\ Goto(j, "a_saving")
    /\ UNCHANGED <<db, job, loc, calls, started, resp, DB_AVAILABLE, followed>>

\* a handler that starts the thread and answers only when it has finished
process_audio_files_directly_Join(j) ==
    /\ pc[j] = "a_saving"
    /\ started' = [started EXCEPT ![j] = @ + 1]
    /\ processing_progress' =
          [processing_progress EXCEPT ![j].status = "completed", ![j].progress = 100]
    /\ Goto(j, "done")
    /\ UNCHANGED <<db, job, inp, loc, calls, resp, DB_AVAILABLE, followed>>

\* app.py:335-460, the accepted files are saved and the thread is started; or
\* a file.save raises, api_process answers 500 (app.py:773-775) and the record
\* stays without a thread
process_audio_files_directly_Start(j) ==
    /\ pc[j] = "a_saving"
    /\ \/ /\ started' = [started EXCEPT ![j] = @ + 1]
          /\ Goto(j, "a_progress10")
       \/ /\ Len(inp[j].files) > 0
          /\ Goto(j, "h_500")
          /\ UNCHANGED started
    /\ UNCHANGED <<processing_progress, db, job, inp, loc, calls, resp, DB_AVAILABLE, followed>>

\* len(saved_files)
total_files(j) == Len(inp[j].files)

\* 20 + (current_file - 1) * 60 // total_files
FileStartProgress(current_file, total) == 20 + ((current_file - 1) * 60) \div total

\* a callback that adds the whole percentage of the file to the base of 20
CallbackPercent(processed_seconds, total_seconds) ==
    20 + (processed_seconds * 100) \div total_seconds

\* 20 + int((processed_seconds / total_seconds) * 60); the float product is
\* exact or rounds to the integer quotient for the durations of the model
CallbackProgress(processed_seconds, total_seconds) ==
    20 + (processed_seconds * 60) \div total_seconds

\* app.py:350
process_async_Progress10(j) ==
    /\ pc[j] = "a_progress10"
    /\ SetProgress(j, "progress", 10)
    /\ Goto(j, "a_preparing")
    /\ UNCHANGED <<db, job, inp, loc, calls, started, resp, DB_AVAILABLE, followed>>

\* app.py:351
process_async_Preparing(j) ==
    /\ pc[j] = "a_preparing"
    /\ SetProgress(j, "message", <<"Preparing files...">>)
    /\ Goto(j, "a_loop")
    /\ UNCHANGED <<db, job, inp, loc, calls, started, resp, DB_AVAILABLE, followed>>

\* app.py:356-359, the loop takes the next file
process_async_NextFile(j) ==
    /\ pc[j] = "a_loop"
    /\ loc[j].cur < total_files(j)
    /\ loc' = [loc EXCEPT ![j].cur = @ + 1, ![j].processed = 0]
    /\ SetProgress(j, "progress", FileStartProgress(loc[j].cur + 1, total_files(j)))
    /\ Goto(j, "a_msg_processing")
    /\ UNCHANGED <<db, job, inp, calls, started, resp, DB_AVAILABLE, followed>>

\* app.py:360
process_async_MsgProcessing(j) ==
    /\ pc[j] = "a_msg_processing"
    /\ SetProgress(j, "message", <<"Processing file", loc[j].cur, total_files(j)>>)
    /\ Goto(j, "a_convert")
    /\ UNCHANGED <<db, job, inp, loc, calls, started, resp, DB_AVAILABLE, followed>>

\* app.py:364-368, convert_mp3_to_wav and os.remove for an mp3, nothing otherwise
process_async_Convert(j) ==
    /\ pc[j] = "a_convert"
    /\ \/ /\ inp[j].files[loc[j].cur] # "mp3"
          /\ Goto(j, "a_msg_transcribing")
          /\ UNCHANGED loc
       \/ /\ inp[j].files[loc[j].cur] = "mp3"
          /\ Goto(j, "a_msg_transcribing")
          /\ UNCHANGED loc
       \/ /\ inp[j].files[loc[j].cur] = "mp3"
          /\ SetLoc(j, "exc", ExcText("convert_mp3_to_wav"))
          /\ Goto(j, "a_except")
    /\ UNCHANGED <<processing_progress, db, job, inp, calls, started, resp, DB_AVAILABLE, followed>>

\* app.py:370
process_async_MsgTranscribing(j) ==
    /\ pc[j] = "a_msg_transcribing"
    /\ SetProgress(j, "message", <<"Transcribing", loc[j].cur, total_files(j)>>)
    /\ Goto(j, "a_ffprobe")
    /\ UNCHANGED <<db, job, inp, loc, calls, started, resp, DB_AVAILABLE, followed>>

\* app.py:373-389, ffprobe gives the duration or fails (caught, logged)
process_async_Ffprobe(j) ==
    /\ pc[j] = "a_ffprobe"
    /\ \/ SetProgress(j, "file_duration", Some(TotalSeconds))
       \/ UNCHANGED processing_progress
    /\ Goto(j, "a_whisper")
    /\ UNCHANGED <<db, job, inp, loc, calls, started, resp, DB_AVAILABLE, followed>>

\* app.py:394-395, send_to_whisper calls update_transcription_progress with
\* (processed_seconds, total_seconds), processed_seconds increasing
update_transcription_progress_Processed(j) ==
    /\ pc[j] = "a_whisper"
    /\ \E processed_seconds \in (loc[j].processed + 1)..TotalSeconds :
          /\ SetProgress(j, "processed_duration", processed_seconds)
          /\ SetLoc(j, "processed", processed_seconds)
    /\ Goto(j, "a_cb_progress")
    /\ UNCHANGED <<db, job, inp, calls, started, resp, DB_AVAILABLE, followed>>

\* app.py:396-398
update_transcription_progress_Progress(j) ==
    /\ pc[j] = "a_cb_progress"
    /\ SetProgress(j, "progress", CallbackProgress(loc[j].processed, TotalSeconds))
    /\ Goto(j, "a_whisper")
    /\ UNCHANGED <<db, job, inp, loc, calls, started, resp, DB_AVAILABLE, followed>>

\* app.py:400-409, send_to_whisper returns and its text is appended
process_async_Transcribed(j) ==
    /\ pc[j] = "a_whisper"
    /\ \E text \in WhisperTexts(loc[j].cur) :
          SetLoc(j, "all_transcriptions", Append(loc[j].all_transcriptions, text))
    /\ Called(j, "send_to_whisper")
    /\ Goto(j, "a_msg_saving")
    /\ UNCHANGED <<processing_progress, db, job, inp, started, resp, DB_AVAILABLE, followed>>

\* app.py:400, send_to_whisper raises
process_async_TranscribeRaises(j) ==
    /\ pc[j] = "a_whisper"
    /\ SetLoc(j, "exc", ExcText("send_to_whisper"))
    /\ Called(j, "send_to_whisper")
    /\ Goto(j, "a_except")
    /\ UNCHANGED <<processing_progress, db, job, inp, started, resp, DB_AVAILABLE, followed>>

\* app.py:411
process_async_MsgSaving(j) ==
    /\ pc[j] = "a_msg_saving"
    /\ SetProgress(j, "message", <<"Saving", loc[j].cur, total_files(j)>>)
    /\ Goto(j, "a_save")
    /\ UNCHANGED <<db, job, inp, loc, calls, started, resp, DB_AVAILABLE, followed>>

\* app.py:413-429, the transcription file is written and the upload removed,
\* or one of the two raises
process_async_Save(j) ==
    /\ pc[j] = "a_save"
    /\ \/ /\ Goto(j, "a_loop")
          /\ UNCHANGED loc
       \/ /\ SetLoc(j, "exc", ExcText("save transcription"))
          /\ Goto(j, "a_except")
    /\ UNCHANGED <<processing_progress, db, job, inp, calls, started, resp, DB_AVAILABLE, followed>>

\* f"Error processing {original_filename}: {str(e)}"
AudioErrorMarker(n, exc) == << <<"Error processing", n>> >> \o exc

\* a per-file handler that records the error and gives the job up
process_async_Abort(j) ==
    /\ pc[j] = "a_except"
    /\ loc' = [loc EXCEPT ![j].all_transcriptions =
                  Append(@, AudioErrorMarker(loc[j].cur, loc[j].exc))]
    /\ Goto(j, "a_outer")
    /\ UNCHANGED <<processing_progress, db, job, inp, calls, started, resp, DB_AVAILABLE, followed>>

\* app.py:431-435, the per-file handler; its own os.remove may raise
process_async_Except(j) ==
    /\ pc[j] = "a_except"
    /\ \/ /\ loc' = [loc EXCEPT ![j].all_transcriptions =
                        Append(@, AudioErrorMarker(loc[j].cur, loc[j].exc))]
          /\ Goto(j, "a_loop")
       \/ /\ loc' = [loc EXCEPT ![j].all_transcriptions =
                        Append(@, AudioErrorMarker(loc[j].cur, loc[j].exc)),
                                ![j].exc = ExcText("os.remove")]
          /\ Goto(j, "a_outer")
    /\ UNCHANGED <<processing_progress, db, job, inp, calls, started, resp, DB_AVAILABLE, followed>>

\* app.py:437
AudioResultText(all_transcriptions) ==
    IF Len(all_transcriptions) > 0 THEN Join(all_transcriptions)
    ELSE << <<"placeholder", "No transcriptions generated">> >>

\* app.py:437-440, after the last file
process_async_Completed(j) ==
    /\ pc[j] = "a_loop"
    /\ loc[j].cur = total_files(j)
    /\ SetLoc(j, "text", AudioResultText(loc[j].all_transcriptions))
    /\ SetProgress(j, "status", "completed")
    /\ Goto(j, "a_done_progress")
    /\ UNCHANGED <<db, job, inp, calls, started, resp, DB_AVAILABLE, followed>>

\* app.py:441
process_async_Progress100(j) ==
    /\ pc[j] = "a_done_progress"
    /\ SetProgress(j, "progress", 100)
    /\ Goto(j, "a_done_message")
    /\ UNCHANGED <<db, job, inp, loc, calls, started, resp, DB_AVAILABLE, followed>>

\* app.py:442
process_async_MsgCompleted(j) ==
    /\ pc[j] = "a_done_message"
    /\ SetProgress(j, "message", <<"Transcription completed!">>)
    /\ Goto(j, "a_done_result")
    /\ UNCHANGED <<db, job, inp, loc, calls, started, resp, DB_AVAILABLE, followed>>

\* app.py:443
process_async_Result(j) ==
    /\ pc[j] = "a_done_result"
    /\ SetProgress(j, "result", Some(loc[j].text))
    /\ Goto(j, "done")
    /\ UNCHANGED <<db, job, inp, loc, calls, started, resp, DB_AVAILABLE, followed>>

\* app.py:445-447
process_async_Failed(j) ==
    /\ pc[j] = "a_outer"
    /\ SetProgress(j, "status", "failed")
    /\ Goto(j, "a_outer_message")
    /\ UNCHANGED <<db, job, inp, loc, calls, started, resp, DB_AVAILABLE, followed>>

\* app.py:448
process_async_MsgFailed(j) ==
    /\ pc[j] = "a_outer_message"
    /\ SetProgress(j, "message", <<"Error: ">> \o loc[j].exc)
    /\ Goto(j, "done")
    /\ UNCHANGED <<db, job, inp, loc, calls, started, resp, DB_AVAILABLE, followed>>

\* the thread of process_audio_files_directly.process_async
process_async(j) ==
    \/ process_async_Progress10(j)
    \/ process_async_Preparing(j)
    \/ process_async_NextFile(j)
    \/ process_async_MsgProcessing(j)
    \/ process_async_Convert(j)
    \/ process_async_MsgTranscribing(j)
    \/ process_async_Ffprobe(j)
    \/ update_transcription_progress_Processed(j)
    \/ update_transcription_progress_Progress(j)
    \/ process_async_Transcribed(j)
    \/ process_async_TranscribeRaises(j)
    \/ process_async_MsgSaving(j)
    \/ process_async_Save(j)
    \/ process_async_Except(j)
    \/ process_async_Completed(j)
    \/ process_async_Progress100(j)
    \/ process_async_MsgCompleted(j)
    \/ process_async_Result(j)
    \/ process_async_Failed(j)
    \/ process_async_MsgFailed(j)


(***************************************************************************)
(* api_process, JSON branch, input_type 'youtube' -> process_youtube_async *)
(***************************************************************************)
\* app.py:668-674; the record has no file_duration and no processed_duration
\* key, which api_job_status reads with .get()
YoutubeRecord ==
    [status |-> "processing", progress |-> 0,
     message |-> <<"Starting YouTube processing...">>,
     result |-> None, file_duration |-> None, processed_duration |-> 0]

\* app.py:659-674, a JSON POST /api/process with a valid YouTube URL: the
\* record is inserted under a fresh uuid4
api_process_youtube(j) ==
    /\ pc[j] = "unborn"
    /\ j \notin DOMAIN processing_progress
    /\ processing_progress' = processing_progress @@ (j :> YoutubeRecord)
    /\ inp' = [inp EXCEPT ![j] = [NoInput EXCEPT !.kind = "youtube"]]
    /\ Goto(j, "y_starting")
    /\ UNCHANGED <<db, job, loc, calls, started, resp, DB_AVAILABLE, followed>>

\* app.py:711-714, threading.Thread(target=process_youtube_async).start()
api_process_youtube_Start(j) ==
    /\ pc[j] = "y_starting"
    /\ started' = [started EXCEPT ![j] = @ + 1]
    /\ Goto(j, "y_progress10")
    /\ UNCHANGED <<processing_progress, db, job, inp, loc, calls, resp, DB_AVAILABLE, followed>>

\* app.py:678
process_youtube_async_Progress10(j) ==
    /\ pc[j] = "y_progress10"
    /\ SetProgress(j, "progress", 10)
    /\ Goto(j, "y_checking")
    /\ UNCHANGED <<db, job, inp, loc, calls, started, resp, DB_AVAILABLE, followed>>

\* app.py:679
process_youtube_async_MsgChecking(j) ==
    /\ pc[j] = "y_checking"
    /\ SetProgress(j, "message", <<"Checking for existing transcript...">>)
    /\ Goto(j, "y_transcript")
    /\ UNCHANGED <<db, job, inp, loc, calls, started, resp, DB_AVAILABLE, followed>>

\* app.py:681-683, get_youtube_transcript succeeds or reports failure
process_youtube_async_Transcript(j) ==
    /\ pc[j] = "y_transcript"
    /\ \/ \E text \in TranscriptTexts :
             /\ loc' = [loc EXCEPT ![j].text = text,
                                   ![j].transcript = "success"]
             /\ Goto(j, "y_found_progress")
       \/ /\ SetLoc(j, "transcript", "failure")
          /\ Goto(j, "y_fallback_progress")
    /\ Called(j, "get_youtube_transcript")
    /\ UNCHANGED <<processing_progress, db, job, inp, started, resp, DB_AVAILABLE, followed>>

\* app.py:684
process_youtube_async_FoundProgress100(j) ==
    /\ pc[j] = "y_found_progress"
    /\ SetProgress(j, "progress", 100)
    /\ Goto(j, "y_found_status")
    /\ UNCHANGED <<db, job, inp, loc, calls, started, resp, DB_AVAILABLE, followed>>

\* app.py:685
process_youtube_async_FoundCompleted(j) ==
    /\ pc[j] = "y_found_status"
    /\ SetProgress(j, "status", "completed")
    /\ Goto(j, "y_found_result")
    /\ UNCHANGED <<db, job, inp, loc, calls, started, resp, DB_AVAILABLE, followed>>

\* app.py:686
process_youtube_async_FoundResult(j) ==
    /\ pc[j] = "y_found_result"
    /\ SetProgress(j, "result", Some(loc[j].text))
    /\ Goto(j, "done")
    /\ UNCHANGED <<db, job, inp, loc, calls, started, resp, DB_AVAILABLE, followed>>

\* app.py:688
process_youtube_async_Progress30(j) ==
    /\ pc[j] = "y_fallback_progress"
    /\ SetProgress(j, "progress", 30)
    /\ Goto(j, "y_downloading")
    /\ UNCHANGED <<db, job, inp, loc, calls, started, resp, DB_AVAILABLE, followed>>

\* app.py:689
process_youtube_async_MsgDownloading(j) ==
    /\ pc[j] = "y_downloading"
    /\ SetProgress(j, "message", <<"Downloading video...">>)
    /\ Goto(j, "y_import")
    /\ UNCHANGED <<db, job, inp, loc, calls, started, resp, DB_AVAILABLE, followed>>

\* app.py:691, from utils.youtube_processor import download_youtube_video:
\* the module defines download_youtube_audio, get_youtube_transcript,
\* get_youtube_info and the URL helpers (youtube_processor.py:11-216) and no
\* download_youtube_video, so the import raises ImportError and lines 692-705
\* (download, transcription, completion, cleanup) never run
process_youtube_async_Import(j) ==
    /\ pc[j] = "y_import"
    /\ SetLoc(j, "exc", ExcText("cannot import name 'download_youtube_video'"))
    /\ Goto(j, "y_except")
    /\ UNCHANGED <<processing_progress, db, job, inp, calls, started, resp, DB_AVAILABLE, followed>>

\* app.py:706-708
process_youtube_async_Failed(j) ==
    /\ pc[j] = "y_except"
    /\ SetProgress(j, "status", "failed")
    /\ Goto(j, "y_except_message")
    /\ UNCHANGED <<db, job, inp, loc, calls, started, resp, DB_AVAILABLE, followed>>

\* app.py:709
process_youtube_async_MsgFailed(j) ==
    /\ pc[j] = "y_except_message"
    /\ SetProgress(j, "message", loc[j].exc)
    /\ Goto(j, "done")
    /\ UNCHANGED <<db, job, inp, loc, calls, started, resp, DB_AVAILABLE, followed>>

\* the thread of api_process.process_youtube_async
process_youtube_async(j) ==
    \/ process_youtube_async_Progress10(j)
    \/ process_youtube_async_MsgChecking(j)
    \/ process_youtube_async_Transcript(j)
    \/ process_youtube_async_FoundProgress100(j)
    \/ process_youtube_async_FoundCompleted(j)
    \/ process_youtube_async_FoundResult(j)
    \/ process_youtube_async_Progress30(j)
    \/ process_youtube_async_MsgDownloading(j)
    \/ process_youtube_async_Import(j)
    \/ process_youtube_async_Failed(j)
    \/ process_youtube_async_MsgFailed(j)

(***************************************************************************)
(* ProcessingJob rows and process_job_worker                               *)
(***************************************************************************)
\* requested output formats the model draws from ('xml' is not supported)
FormatChoices == { <<>>, <<"text", "pdf">>, <<"text", "xml">> }

\* job_metadata['llm']: <<enabled, exportMarkdown>> (app.py:1100-1103, 1139)
LlmChoices == { <<FALSE, FALSE>>, <<TRUE, FALSE>>, <<TRUE, TRUE>> }

\* n files of one type
FilesOf(n, file_type) == [k \in 1..n |-> file_type]

\* the jobs process_job_worker has a branch for: every job_type and input_type
\* of models.py:11-12 with its file list, YouTube options, LLM switch and
\* formats.  api_process itself returns at app.py:602 and 714 before it creates
\* a file or YouTube row, so over HTTP only the tts row reaches line 762; the
\* others are rows process_job_async (app.py:949-954) accepts from any caller.
DurableJobs ==
    {[NoInput EXCEPT !.kind = "durable", !.job_type = "tts", !.input_type = "text",
                     !.output_formats = <<"mp3">>]}
    \cup
    {[NoInput EXCEPT !.kind = "durable", !.job_type = "transcription",
                     !.input_type = "file", !.file_type = ft,
                     !.files = FilesOf(n, ft), !.llm = llm[1],
                     !.export_markdown = llm[2], !.output_formats = fmts] :
        ft \in {"mp3", "wav"}, n \in 0..MaxFiles, llm \in LlmChoices, fmts \in FormatChoices}
    \cup
    {[NoInput EXCEPT !.kind = "durable", !.job_type = "transcription",
                     !.input_type = "youtube", !.pull_transcript = pull,
                     !.transcribe_audio = audio, !.llm = llm[1],
                     !.export_markdown = llm[2], !.output_formats = fmts] :
        pull \in BOOLEAN, audio \in BOOLEAN, llm \in LlmChoices, fmts \in FormatChoices}
    \cup
    {[NoInput EXCEPT !.kind = "durable", !.job_type = "transcription",
                     !.input_type = "text", !.output_formats = fmts] :
        fmts \in FormatChoices}
    \cup
    {[NoInput EXCEPT !.kind = "durable", !.job_type = "document_processing",
                     !.input_type = "file", !.file_type = "pdf",
                     !.files = FilesOf(n, "pdf"), !.llm = llm[1],
                     !.export_markdown = llm[2], !.output_formats = fmts] :
        n \in 0..MaxFiles, llm \in LlmChoices, fmts \in FormatChoices}

\* app.py:740-755, the only job api_process hands to the database: text to
\* speech
TtsJobs == {config \in DurableJobs : config.job_type = "tts"}

\* models.py:7-36, a row as api_process creates it (status 'pending',
\* progress_percentage default 0)
NewJob(config) ==
    [job_type |-> config.job_type, input_type |-> config.input_type,
     file_type |-> config.file_type, status |-> "pending",
     progress_percentage |-> 0, result_text |-> None, result_files |-> None,
     error_message |-> None]

\* app.py:604-637 and 720-759: the row is added and committed under a fresh id
api_process_job(j, config) ==
    /\ pc[j] = "unborn"
    /\ j \notin DOMAIN db
    /\ j \notin DOMAIN processing_progress
    /\ db' = db @@ (j :> NewJob(config))
    /\ inp' = [inp EXCEPT ![j] = config]
    /\ Goto(j, "w_starting")
    /\ UNCHANGED <<processing_progress, job, loc, calls, started, resp, DB_AVAILABLE, followed>>

\* app.py:757-771, db.session.add/commit raises (the database is unreachable
\* or was never configured): 503 'Database unavailable', no row, no thread
api_process_job_Unavailable(j, config) ==
    /\ pc[j] = "unborn"
    /\ j \notin DOMAIN db
    /\ j \notin DOMAIN processing_progress
    /\ inp' = [inp EXCEPT ![j] = config]
    /\ Goto(j, "h_503")
    /\ UNCHANGED <<processing_progress, db, job, loc, calls, started, resp, DB_AVAILABLE, followed>>

\* a process_job_async that starts two threads for the job
process_job_async_Twice(j) ==
    /\ pc[j] = "w_starting"
    /\ started' = [started EXCEPT ![j] = @ + 2]
    /\ Goto(j, "w_get")
    /\ UNCHANGED <<processing_progress, db, job, inp, loc, calls, resp, DB_AVAILABLE, followed>>

\* app.py:949-954 (called at 640 and 762), one thread on process_job_worker
process_job_async(j) ==
    /\ pc[j] = "w_starting"
    /\ started' = [started EXCEPT ![j] = @ + 1]
    /\ Goto(j, "w_get")
    /\ UNCHANGED <<processing_progress, db, job, inp, loc, calls, resp, DB_AVAILABLE, followed>>

\* job.<attributes> = ...; db.session.commit(): the row is committed, or the
\* commit raises and the app context's teardown drops the session
Commit(j, row, next, newloc, handler) ==
    \/ /\ db' = [db EXCEPT ![j] = row]
       /\ job' = [job EXCEPT ![j] = Some(row)]
       /\ loc' = [loc EXCEPT ![j] = newloc]
       /\ Goto(j, next)
    \/ /\ job' = [job EXCEPT ![j] = None]
       /\ loc' = [loc EXCEPT ![j].exc = ExcText("db.session.commit")]
       /\ Goto(j, handler)
       /\ UNCHANGED db

\* job.progress_percentage = value; db.session.commit()
CommitProgress(j, value, next) ==
    Commit(j, [The(job[j]) EXCEPT !.progress_percentage = value], next, loc[j],
           "w_except")

\* app.py:958-960, ProcessingJob.query.get(job_id)
process_job_worker_Get(j) ==
    /\ pc[j] = "w_get"
    /\ \/ /\ job' = [job EXCEPT ![j] = Some(db[j])]
          /\ Goto(j, "w_start")
          /\ UNCHANGED loc
       \/ /\ SetLoc(j, "exc", ExcText("ProcessingJob.query.get"))
          /\ Goto(j, "w_except")
          /\ UNCHANGED job
    /\ UNCHANGED <<processing_progress, db, inp, calls, started, resp, DB_AVAILABLE, followed>>

\* app.py:964-966
process_job_worker_Start(j) ==
    /\ pc[j] = "w_start"
    /\ Commit(j, [The(job[j]) EXCEPT !.status = "processing",
                                    !.progress_percentage = 10],
              "w_dispatch", loc[j], "w_except")
    /\ UNCHANGED <<processing_progress, inp, calls, started, resp, DB_AVAILABLE, followed>>

\* app.py:971-972, 1011, 1075, 1084-1086: the branch the job takes
Branch(config) ==
    IF config.job_type = "transcription"
    THEN IF config.input_type = "file" /\ Len(config.files) > 0 THEN "w_file_loop"
         ELSE IF config.input_type = "youtube" THEN "w_yt_30"
         ELSE "w_llm"
    ELSE IF config.job_type = "tts" THEN "w_tts_40"
    ELSE IF config.job_type = "document_processing" /\ Len(config.files) > 0
         THEN "w_doc"
    ELSE "w_llm"

process_job_worker_Dispatch(j) ==
    /\ pc[j] = "w_dispatch"
    /\ Goto(j, Branch(inp[j]))
    /\ UNCHANGED <<processing_progress, db, job, inp, loc, calls, started, resp,
                   DB_AVAILABLE, followed>>

\* 20 + (i * 40 // len(file_paths))
FileProgress(i, n) == 20 + ((i * 40) \div n)

\* app.py:976-978
process_job_worker_FileProgress(j) ==
    /\ pc[j] = "w_file_loop"
    /\ loc[j].cur < Len(inp[j].files)
    /\ CommitProgress(j, FileProgress(loc[j].cur, Len(inp[j].files)), "w_file")
    /\ UNCHANGED <<processing_progress, inp, calls, started, resp, DB_AVAILABLE, followed>>

\* f"Error processing file: {str(e)}"
FileErrorMarker(exc) == << <<"Error processing file", 0>> >> \o exc

\* app.py:980-1007, one file: conversion (mp3, mp4, mov), transcription,
\* os.remove; an exception of any of them is caught and appended
process_job_worker_File(j) ==
    /\ pc[j] = "w_file"
    /\ LET n == loc[j].cur + 1
           all == loc[j].all_transcriptions
       IN \/ /\ inp[j].file_type \in {"mp3", "mp4", "mov"}
             /\ loc' = [loc EXCEPT ![j].cur = n, ![j].all_transcriptions =
                          Append(all, FileErrorMarker(ExcText("convert_mp3_to_wav")))]
             /\ UNCHANGED calls
          \/ /\ loc' = [loc EXCEPT ![j].cur = n, ![j].all_transcriptions =
                          Append(all, FileErrorMarker(ExcText("send_to_whisper")))]
             /\ Called(j, "send_to_whisper")
          \/ /\ \E text \in WhisperTexts(n) :
                   \/ loc' = [loc EXCEPT ![j].cur = n,
                                         ![j].all_transcriptions = Append(all, text)]
                   \/ loc' = [loc EXCEPT ![j].cur = n, ![j].all_transcriptions =
                                all \o <<text, FileErrorMarker(ExcText("os.remove"))>>]
             /\ Called(j, "send_to_whisper")
    /\ Goto(j, "w_file_loop")
    /\ UNCHANGED <<processing_progress, db, job, inp, started, resp, DB_AVAILABLE, followed>>

\* app.py:1009
process_job_worker_FilesJoined(j) ==
    /\ pc[j] = "w_file_loop"
    /\ loc[j].cur = Len(inp[j].files)
    /\ job' = [job EXCEPT ![j] =
                 Some([The(job[j]) EXCEPT !.result_text = Some(Join(loc[j].all_transcriptions))])]
    /\ Goto(j, "w_llm")
    /\ UNCHANGED <<processing_progress, db, inp, loc, calls, started, resp, DB_AVAILABLE, followed>>

\* app.py:1013-1014
process_job_worker_Youtube30(j) ==
    /\ pc[j] = "w_yt_30"
    /\ CommitProgress(j, 30, "w_yt_options")
    /\ UNCHANGED <<processing_progress, inp, calls, started, resp, DB_AVAILABLE, followed>>

\* app.py:1017-1025, youtubeOptions: pullTranscript (default True) and
\* transcribeAudio (default False)
process_job_worker_YoutubeOptions(j) ==
    /\ pc[j] = "w_yt_options"
    /\ SetLoc(j, "transcribe_audio", inp[j].transcribe_audio)
    /\ Goto(j, IF inp[j].pull_transcript THEN "w_yt_35" ELSE "w_yt_decide")
    /\ UNCHANGED <<processing_progress, db, job, inp, calls, started, resp, DB_AVAILABLE, followed>>

\* app.py:1026-1027
process_job_worker_Youtube35(j) ==
    /\ pc[j] = "w_yt_35"
    /\ CommitProgress(j, 35, "w_yt_transcript")
    /\ UNCHANGED <<processing_progress, inp, calls, started, resp, DB_AVAILABLE, followed>>

\* app.py:1029-1039, get_youtube_transcript; a failure switches the audio
\* transcription on
process_job_worker_Transcript(j) ==
    /\ pc[j] = "w_yt_transcript"
    /\ \/ \E text \in TranscriptTexts :
             loc' = [loc EXCEPT ![j].all_transcriptions = Append(@, text),
                                ![j].transcript_sources = Append(@, "YouTube Transcript (en)"),
                                ![j].transcript = "success"]
       \/ loc' = [loc EXCEPT ![j].transcribe_audio = TRUE,
                             ![j].transcript = "failure"]
    /\ Called(j, "get_youtube_transcript")
    /\ Goto(j, "w_yt_decide")
    /\ UNCHANGED <<processing_progress, db, job, inp, started, resp, DB_AVAILABLE, followed>>

\* a worker that downloads and transcribes whatever the transcript gave
AudioAlways(transcribe_audio, all_transcriptions) == TRUE

\* app.py:1042, `if transcribe_audio or not all_transcriptions`
AudioWanted(transcribe_audio, all_transcriptions) ==
    transcribe_audio \/ Len(all_transcriptions) = 0

process_job_worker_Decide(j) ==
    /\ pc[j] = "w_yt_decide"
    /\ Goto(j, IF AudioWanted(loc[j].transcribe_audio, loc[j].all_transcriptions)
               THEN "w_yt_50" ELSE "w_yt_combine")
    /\ UNCHANGED <<processing_progress, db, job, inp, loc, calls, started, resp,
                   DB_AVAILABLE, followed>>

\* app.py:1043-1044
process_job_worker_Youtube50(j) ==
    /\ pc[j] = "w_yt_50"
    /\ CommitProgress(j, 50, "w_yt_download")
    /\ UNCHANGED <<processing_progress, inp, calls, started, resp, DB_AVAILABLE, followed>>

\* app.py:1046, download_youtube_audio returns the files it finds on disk
\* (youtube_processor.py:143-171) or raises (youtube_processor.py:173-175)
process_job_worker_Download(j) ==
    /\ pc[j] = "w_yt_download"
    /\ \/ \E n \in 0..MaxFiles :
             /\ loc' = [loc EXCEPT ![j].n_audio = n, ![j].cur = 0]
             /\ Goto(j, "w_yt_audio_loop")
       \/ /\ SetLoc(j, "exc", ExcText("Failed to download YouTube audio"))
          /\ Goto(j, "w_except")
    /\ Called(j, "download")
    /\ UNCHANGED <<processing_progress, db, job, inp, started, resp, DB_AVAILABLE, followed>>

\* 55 + (i * 25 // len(audio_files))
AudioProgress(i, n) == 55 + ((i * 25) \div n)

\* app.py:1048-1050
process_job_worker_AudioProgress(j) ==
    /\ pc[j] = "w_yt_audio_loop"
    /\ loc[j].cur < loc[j].n_audio
    /\ CommitProgress(j, AudioProgress(loc[j].cur, loc[j].n_audio), "w_yt_audio")
    /\ UNCHANGED <<processing_progress, inp, calls, started, resp, DB_AVAILABLE, followed>>

\* f"Error transcribing: {str(e)}"
TranscribeErrorMarker(exc) == << <<"Error transcribing", 0>> >> \o exc

\* app.py:1052-1064, one downloaded file: transcription and os.remove; an
\* exception of either is caught and appended
process_job_worker_Audio(j) ==
    /\ pc[j] = "w_yt_audio"
    /\ LET n == loc[j].cur + 1
           all == loc[j].all_transcriptions
           sources == loc[j].transcript_sources
       IN \/ loc' = [loc EXCEPT ![j].cur = n,
                       ![j].all_transcriptions =
                          Append(all, TranscribeErrorMarker(ExcText("send_to_whisper"))),
                       ![j].transcript_sources =
                          Append(sources, "Audio Transcription (Error)")]
          \/ \E text \in WhisperTexts(n) :
                \/ loc' = [loc EXCEPT ![j].cur = n,
                             ![j].transcribed = @ + 1,
                             ![j].all_transcriptions = Append(all, text),
                             ![j].transcript_sources =
                                Append(sources, "Audio Transcription")]
                \/ loc' = [loc EXCEPT ![j].cur = n,
                             ![j].transcribed = @ + 1,
                             ![j].all_transcriptions =
                                all \o <<text, TranscribeErrorMarker(ExcText("os.remove"))>>,
                             ![j].transcript_sources =
                                sources \o <<"Audio Transcription",
                                             "Audio Transcription (Error)">>]
    /\ Called(j, "send_to_whisper")
    /\ Goto(j, "w_yt_audio_loop")
    /\ UNCHANGED <<processing_progress, db, job, inp, started, resp, DB_AVAILABLE, followed>>

\* app.py:1048, the loop over audio_files ends
process_job_worker_AudioDone(j) ==
    /\ pc[j] = "w_yt_audio_loop"
    /\ loc[j].cur = loc[j].n_audio
    /\ Goto(j, "w_yt_combine")
    /\ UNCHANGED <<processing_progress, db, job, inp, loc, calls, started, resp,
                   DB_AVAILABLE, followed>>

\* f"=== {source} ===\n{text}"
Section(source, text) == << <<"label", source>> >> \o text

\* app.py:1067-1073 (and 533-539)
CombineResults(all_transcriptions, transcript_sources) ==
    IF Len(all_transcriptions) > 1
    THEN Join([k \in 1..Len(all_transcriptions) |->
                 Section(transcript_sources[k], all_transcriptions[k])])
    ELSE IF Len(all_transcriptions) = 1 THEN all_transcriptions[1]
    ELSE << <<"placeholder", "No transcript available">> >>

process_job_worker_Combine(j) ==
    /\ pc[j] = "w_yt_combine"
    /\ job' = [job EXCEPT ![j] =
                 Some([The(job[j]) EXCEPT !.result_text =
                    Some(CombineResults(loc[j].all_transcriptions,
                                        loc[j].transcript_sources))])]
    /\ Goto(j, "w_llm")
    /\ UNCHANGED <<processing_progress, db, inp, loc, calls, started, resp, DB_AVAILABLE, followed>>

\* app.py:1077-1078
process_job_worker_Tts40(j) ==
    /\ pc[j] = "w_tts_40"
    /\ CommitProgress(j, 40, "w_tts")
    /\ UNCHANGED <<processing_progress, inp, calls, started, resp, DB_AVAILABLE, followed>>

\* app.py:1080-1082, convert_text_to_speech returns the audio file or raises
process_job_worker_Tts(j) ==
    /\ pc[j] = "w_tts"
    /\ \/ /\ SetLoc(j, "result_files", Append(loc[j].result_files, <<"audio", "mp3">>))
          /\ job' = [job EXCEPT ![j] =
                       Some([The(job[j]) EXCEPT !.result_text =
                          Some(<< <<"Speech generated from", "characters of text">> >>)])]
          /\ Goto(j, "w_llm")
       \/ /\ SetLoc(j, "exc", ExcText("Text-to-speech conversion failed"))
          /\ Goto(j, "w_except")
          /\ UNCHANGED job
    /\ Called(j, "convert_text_to_speech")
    /\ UNCHANGED <<processing_progress, db, inp, started, resp, DB_AVAILABLE, followed>>

\* process_document's text: the document's text, empty for an empty document
DocumentTexts(n) == { << <<"document", n>> >>, EmptyText }

\* f"Error processing document: {str(e)}"
DocumentErrorMarker(exc) == << <<"Error processing document", 0>> >> \o exc

\* app.py:1088-1095, one document
process_job_worker_Document(j) ==
    /\ pc[j] = "w_doc"
    /\ loc[j].cur < Len(inp[j].files)
    /\ LET n == loc[j].cur + 1
           all == loc[j].all_transcriptions
       IN \/ \E text \in DocumentTexts(n) :
                \/ loc' = [loc EXCEPT ![j].cur = n,
                                      ![j].all_transcriptions = Append(all, text)]
                \/ loc' = [loc EXCEPT ![j].cur = n, ![j].all_transcriptions =
                             all \o <<text, DocumentErrorMarker(ExcText("os.remove"))>>]
          \/ loc' = [loc EXCEPT ![j].cur = n, ![j].all_transcriptions =
                       Append(all, DocumentErrorMarker(ExcText("process_document")))]
    /\ Called(j, "process_document")
    /\ UNCHANGED <<processing_progress, db, job, inp, pc, started, resp, DB_AVAILABLE, followed>>

\* app.py:1097
process_job_worker_DocumentsJoined(j) ==
    /\ pc[j] = "w_doc"
    /\ loc[j].cur = Len(inp[j].files)
    /\ job' = [job EXCEPT ![j] =
                 Some([The(job[j]) EXCEPT !.result_text = Some(Join(loc[j].all_transcriptions))])]
    /\ Goto(j, "w_llm")
    /\ UNCHANGED <<processing_progress, db, inp, loc, calls, started, resp, DB_AVAILABLE, followed>>

\* bool(job.result_text)
HasText(row) == ~IsNone(row.result_text) /\ Truthy(The(row.result_text))

\* app.py:1099-1103
process_job_worker_LlmWanted(j) ==
    /\ pc[j] = "w_llm"
    /\ Goto(j, IF inp[j].llm /\ HasText(The(job[j])) THEN "w_llm_75" ELSE "w_render_80")
    /\ UNCHANGED <<processing_progress, db, job, inp, loc, calls, started, resp,
                   DB_AVAILABLE, followed>>

\* app.py:1104-1105
process_job_worker_Llm75(j) ==
    /\ pc[j] = "w_llm_75"
    /\ CommitProgress(j, 75, "w_llm_call")
    /\ UNCHANGED <<processing_progress, inp, calls, started, resp, DB_AVAILABLE, followed>>

\* f"{job.result_text}\n\n--- AI Analysis ---\n\n{llm_result_text}"
WithAnalysis(text) ==
    text \o << <<"sep", "\n\n">>, <<"label", "--- AI Analysis ---">>,
               <<"sep", "\n\n">>, <<"analysis", "processed_text">> >>

\* the call of 1111-1116 as it would be if the analysis were appended to the
\* text before the OpenQM save and the markdown export
process_job_worker_LlmAppendFirst(j) ==
    /\ pc[j] = "w_llm_call"
    /\ \/ /\ job' = [job EXCEPT ![j] =
                       Some([The(job[j]) EXCEPT !.result_text =
                          Some(WithAnalysis(The(The(job[j]).result_text)))])]
          /\ Goto(j, "w_llm_save")
          /\ UNCHANGED loc
       \/ /\ SetLoc(j, "ai", "failed")
          /\ Goto(j, "w_render_80")
          /\ UNCHANGED job
       \/ /\ Goto(j, "w_llm_except")
          /\ UNCHANGED <<job, loc>>
    /\ Called(j, "llm")
    /\ UNCHANGED <<processing_progress, db, inp, started, resp, DB_AVAILABLE, followed>>

\* app.py:1107-1119 and 1156-1157, the call of process_text_with_llm: it
\* reports success, or it reports failure, which is logged, or it raises
process_job_worker_Llm(j) ==
    /\ pc[j] = "w_llm_call"
    /\ \/ /\ Goto(j, "w_llm_save")
          /\ UNCHANGED loc
       \/ /\ SetLoc(j, "ai", "failed")
          /\ Goto(j, "w_render_80")
       \/ /\ Goto(j, "w_llm_except")
          /\ UNCHANGED loc
    /\ Called(j, "llm")
    /\ UNCHANGED <<processing_progress, db, job, inp, started, resp, DB_AVAILABLE,
                   followed>>

\* app.py:1122-1136, save_transcript_to_openqm when llm_config asks for it: it
\* is not asked for, it answers (a saved record or a reported error, both only
\* logged), or it raises
process_job_worker_LlmSave(j) ==
    /\ pc[j] = "w_llm_save"
    /\ \E save \in {"not_requested", "saved", "reported_error", "raised"} :
          Goto(j, IF save = "raised" THEN "w_llm_except" ELSE "w_llm_export")
    /\ UNCHANGED <<processing_progress, db, job, inp, loc, calls, started, resp,
                   DB_AVAILABLE, followed>>

\* app.py:1138-1152, the markdown export when llm_config asks for it: the file
\* is written and its name added to result_files, or open/write raises
process_job_worker_LlmExport(j) ==
    /\ pc[j] = "w_llm_export"
    /\ IF inp[j].export_markdown
       THEN \/ /\ SetLoc(j, "result_files",
                         Append(loc[j].result_files, <<"export", "markdown">>))
               /\ Goto(j, "w_llm_append")
            \/ /\ Goto(j, "w_llm_except")
               /\ UNCHANGED loc
       ELSE /\ Goto(j, "w_llm_append")
            /\ UNCHANGED loc
    /\ UNCHANGED <<processing_progress, db, job, inp, calls, started, resp,
                   DB_AVAILABLE, followed>>

\* app.py:1154-1155
process_job_worker_LlmAppend(j) ==
    /\ pc[j] = "w_llm_append"
    /\ job' = [job EXCEPT ![j] =
                 Some([The(job[j]) EXCEPT !.result_text =
                    Some(WithAnalysis(The(The(job[j]).result_text)))])]
    /\ SetLoc(j, "ai", "succeeded")
    /\ Goto(j, "w_render_80")
    /\ UNCHANGED <<processing_progress, db, inp, calls, started, resp, DB_AVAILABLE,
                   followed>>

\* app.py:1159-1160, the handler of the AI block only logs
process_job_worker_LlmExcept(j) ==
    /\ pc[j] = "w_llm_except"
    /\ SetLoc(j, "ai", "failed")
    /\ Goto(j, "w_render_80")
    /\ UNCHANGED <<processing_progress, db, job, inp, calls, started, resp,
                   DB_AVAILABLE, followed>>

\* app.py:1163-1164
process_job_worker_Render80(j) ==
    /\ pc[j] = "w_render_80"
    /\ CommitProgress(j, 80, "w_render")
    /\ UNCHANGED <<processing_progress, inp, calls, started, resp, DB_AVAILABLE, followed>>

\* output_formatter.py:259-292, the format tags generate_output_file knows
SupportedFormats == {"text", "markdown", "word", "pdf"}

\* app.py:1166, `if job.result_text and job.output_formats`
RenderWanted(row, output_formats) == HasText(row) /\ Len(output_formats) > 0

\* a render loop without the try of app.py:1175: a format that fails to render
\* raises into the worker's handler
process_job_worker_RenderStrict(j) ==
    /\ pc[j] = "w_render"
    /\ RenderWanted(The(job[j]), inp[j].output_formats)
    /\ loc[j].format < Len(inp[j].output_formats)
    /\ LET format_type == inp[j].output_formats[loc[j].format + 1]
       IN \/ /\ format_type = "mp3"
             /\ SetLoc(j, "format", loc[j].format + 1)
             /\ UNCHANGED <<calls, pc>>
          \/ /\ format_type \in SupportedFormats
             /\ loc' = [loc EXCEPT ![j].format = @ + 1,
                                   ![j].result_files = Append(@, <<"file", format_type>>)]
             /\ calls' = [calls EXCEPT ![j].render = Append(@, format_type),
                                       ![j].rendered = Append(@, format_type)]
             /\ UNCHANGED pc
          \/ /\ format_type # "mp3"
             /\ SetLoc(j, "exc", ExcText("generate_output_file"))
             /\ calls' = [calls EXCEPT ![j].render = Append(@, format_type)]
             /\ Goto(j, "w_except")
    /\ UNCHANGED <<processing_progress, db, job, inp, started, resp, DB_AVAILABLE, followed>>

\* app.py:1174-1185, one requested format: 'mp3' is skipped, a supported
\* format is rendered or raises, an unsupported one raises (logged)
process_job_worker_Render(j) ==
    /\ pc[j] = "w_render"
    /\ RenderWanted(The(job[j]), inp[j].output_formats)
    /\ loc[j].format < Len(inp[j].output_formats)
    /\ LET format_type == inp[j].output_formats[loc[j].format + 1]
       IN \/ /\ format_type = "mp3"
             /\ SetLoc(j, "format", loc[j].format + 1)
             /\ UNCHANGED calls
          \/ /\ format_type \in SupportedFormats
             /\ loc' = [loc EXCEPT ![j].format = @ + 1,
                                   ![j].result_files = Append(@, <<"file", format_type>>)]
             /\ calls' = [calls EXCEPT ![j].render = Append(@, format_type),
                                       ![j].rendered = Append(@, format_type)]
          \/ /\ format_type # "mp3"
             /\ SetLoc(j, "format", loc[j].format + 1)
             /\ calls' = [calls EXCEPT ![j].render = Append(@, format_type)]
    /\ UNCHANGED <<processing_progress, db, job, inp, pc, started, resp, DB_AVAILABLE, followed>>

\* app.py:1166-1174, nothing to render or every format attempted
process_job_worker_RenderDone(j) ==
    /\ pc[j] = "w_render"
    /\ \/ ~RenderWanted(The(job[j]), inp[j].output_formats)
       \/ loc[j].format = Len(inp[j].output_formats)
    /\ Goto(j, "w_complete")
    /\ UNCHANGED <<processing_progress, db, job, inp, loc, calls, started, resp,
                   DB_AVAILABLE, followed>>

\* app.py:1188-1192
process_job_worker_Complete(j) ==
    /\ pc[j] = "w_complete"
    /\ Commit(j, [The(job[j]) EXCEPT !.status = "completed",
                                    !.progress_percentage = 100,
                                    !.result_files = Some(loc[j].result_files)],
              "done", loc[j], "w_except")
    /\ UNCHANGED <<processing_progress, inp, calls, started, resp, DB_AVAILABLE, followed>>

\* app.py:1194-1197, the handler loads the row again in a fresh app context;
\* if that raises, the exception leaves the thread
process_job_worker_Except(j) ==
    /\ pc[j] = "w_except"
    /\ \/ /\ job' = [job EXCEPT ![j] = Some(db[j])]
          /\ Goto(j, "w_failed")
       \/ /\ UNCHANGED job
          /\ Goto(j, "dead")
    /\ UNCHANGED <<processing_progress, db, inp, loc, calls, started, resp, DB_AVAILABLE, followed>>

\* app.py:1198-1201; if the commit raises, the exception leaves the thread
process_job_worker_Failed(j) ==
    /\ pc[j] = "w_failed"
    /\ Commit(j, [The(job[j]) EXCEPT !.status = "failed",
                                    !.error_message = Some(loc[j].exc)],
              "done", loc[j], "dead")
    /\ UNCHANGED <<processing_progress, inp, calls, started, resp, DB_AVAILABLE, followed>>

\* the thread of process_job_worker
process_job_worker(j) ==
    \/ process_job_worker_Get(j)
    \/ process_job_worker_Start(j)
    \/ process_job_worker_Dispatch(j)
    \/ process_job_worker_FileProgress(j)
    \/ process_job_worker_File(j)
    \/ process_job_worker_FilesJoined(j)
    \/ process_job_worker_Youtube30(j)
    \/ process_job_worker_YoutubeOptions(j)
    \/ process_job_worker_Youtube35(j)
    \/ process_job_worker_Transcript(j)
    \/ process_job_worker_Decide(j)
    \/ process_job_worker_Youtube50(j)
    \/ process_job_worker_Download(j)
    \/ process_job_worker_AudioProgress(j)
    \/ process_job_worker_Audio(j)
    \/ process_job_worker_AudioDone(j)
    \/ process_job_worker_Combine(j)
    \/ process_job_worker_Tts40(j)
    \/ process_job_worker_Tts(j)
    \/ process_job_worker_Document(j)
    \/ process_job_worker_DocumentsJoined(j)
    \/ process_job_worker_LlmWanted(j)
    \/ process_job_worker_Llm75(j)
    \/ process_job_worker_Llm(j)
    \/ process_job_worker_LlmSave(j)
    \/ process_job_worker_LlmExport(j)
    \/ process_job_worker_LlmAppend(j)
    \/ process_job_worker_LlmExcept(j)
    \/ process_job_worker_Render80(j)
    \/ process_job_worker_Render(j)
    \/ process_job_worker_RenderDone(j)
    \/ process_job_worker_Complete(j)
    \/ process_job_worker_Except(j)
    \/ process_job_worker_Failed(j)

(***************************************************************************)
(* api_job_status                                                          *)
(***************************************************************************)
\* app.py:788-813, the message with its time information
InMemoryStatusMessage(progress) ==
    IF IsNone(progress.file_duration) THEN <<progress.message, "">>
    ELSE IF progress.processed_duration > 0
         THEN <<progress.message, "Duration | Processed | Remaining">>
         ELSE <<progress.message, "Total duration | Analyzing...">>

\* app.py:815-824
InMemoryResponse(progress) ==
    [code |-> 200,
     status |-> progress.status,
     progress_percentage |-> progress.progress,
     status_message |-> InMemoryStatusMessage(progress),
     result_text |-> progress.result,
     result_files |-> Some(<<>>),
     error_message |-> None]

\* app.py:839-844
DurableStatusMessage(status) ==
    CASE status = "pending" -> <<"Waiting to start...", "">>
      [] status = "processing" -> <<"Processing in progress...", "">>
      [] status = "completed" -> <<"Processing completed!", "">>
      [] status = "failed" -> <<"Processing failed", "">>
      [] OTHER -> <<"Unknown status", "">>

\* app.py:846-855
DurableResponse(row) ==
    [code |-> 200,
     status |-> row.status,
     progress_percentage |-> row.progress_percentage,
     status_message |-> DurableStatusMessage(row.status),
     result_text |-> row.result_text,
     result_files |-> row.result_files,
     error_message |-> row.error_message]

\* an error response: 404 'Job not found' or 500 'Failed to get job status'
ErrorResponse(code) ==
    [code |-> code, status |-> "none", progress_percentage |-> 0,
     status_message |-> <<"", "">>, result_text |-> None, result_files |-> None,
     error_message |-> None]

\* what GET /api/job-status/<job_id> answers now; `numeric` says whether the
\* identifier parses as an int, `query_ok` whether the database answers
JobStatus(j, numeric, query_ok) ==
    IF j \in DOMAIN processing_progress THEN InMemoryResponse(processing_progress[j])
    ELSE IF ~DB_AVAILABLE THEN ErrorResponse(404)
    ELSE IF ~numeric THEN ErrorResponse(404)
    ELSE IF ~query_ok THEN ErrorResponse(500)
    ELSE IF j \notin DOMAIN db THEN ErrorResponse(500)
    ELSE DurableResponse(db[j])

\* identifiers are uuid4 strings for in-memory jobs and integers for rows
Numeric(j) ==
    IF j \in DOMAIN processing_progress THEN {FALSE}
    ELSE IF j \in DOMAIN db THEN {TRUE}
    ELSE BOOLEAN

\* a poll that drops the progress record once it has reported a terminal
\* status
api_job_status_Consuming(j) ==
    /\ \E numeric \in Numeric(j), query_ok \in BOOLEAN :
          resp' = [resp EXCEPT ![j] = Some(JobStatus(j, numeric, query_ok))]
    /\ IF j \in DOMAIN processing_progress /\ processing_progress[j].status \in {"completed", "failed"}
       THEN processing_progress' =
               [k \in DOMAIN processing_progress \ {j} |-> processing_progress[k]]
       ELSE UNCHANGED processing_progress
    /\ UNCHANGED <<db, job, inp, pc, loc, calls, started, DB_AVAILABLE, followed>>

\* app.py:777-859
api_job_status(j) ==
    /\ \E numeric \in Numeric(j), query_ok \in BOOLEAN :
          resp' = [resp EXCEPT ![j] = Some(JobStatus(j, numeric, query_ok))]
    /\ UNCHANGED <<processing_progress, db, job, inp, pc, loc, calls, started,
                   DB_AVAILABLE, followed>>

(***************************************************************************)
(* whisper_client.send_to_whisper, one call followed step by step.         *)
(***************************************************************************)
\* how a backend that is present ends, or that it is absent
Backend == {"absent", "ok", "fails"}

\* what a call of send_to_whisper finds: the audio file, the script at
\* WHISPER_SCRIPT_PATH, the ssh and sshpass tools with the GPU server behind
\* them, the GPU-enabled Python, the faster_whisper package, and whether the
\* recording holds speech
WhisperEnvironments ==
    [file_exists : BOOLEAN, script : Backend, gpu_server : Backend,
     gpu_python : Backend, faster_whisper : Backend, speech : BOOLEAN]

\* the text a backend transcribes from the recording
Transcribed(env) == IF env.speech THEN << <<"speech", 1>> >> ELSE EmptyText

\* whisper_client.py:237-240, the text of the dictionary _process_locally
\* returns on ImportError
InstallNotice ==
    << <<"notice", "Local transcription requires faster-whisper installation.">> >>

\* the steps that run a backend: _process_with_local_script,
\* _process_with_gpu_server, _process_with_gpu_python and the faster_whisper
\* library inside _process_locally
WhisperBackends == {"local_script", "gpu_server", "gpu_python", "library"}

\* the backends the call has run so far, the one of this step included
Attempted ==
    IF whisper.at \in WhisperBackends THEN Append(whisper.tried, whisper.at)
    ELSE whisper.tried

WhisperGoto(label) == whisper' = [whisper EXCEPT !.at = label, !.tried = Attempted]

\* return of a result dictionary; `produced` says a backend transcribed
WhisperReturn(text, produced) ==
    whisper' = [whisper EXCEPT !.at = "returned", !.text = text,
                               !.produced = produced, !.tried = Attempted]

WhisperRaise(what) ==
    whisper' = [whisper EXCEPT !.at = "raised", !.text = ExcText(what),
                               !.tried = Attempted]

\* whisper_client.py:32-61, the route send_to_whisper takes
send_to_whisper(env) ==
    /\ whisper.at = "called"
    /\ IF ~env.file_exists THEN WhisperRaise("Audio file not found")
       ELSE IF env.script /= "absent" THEN WhisperGoto("local_script")
       ELSE IF env.gpu_server /= "absent" THEN WhisperGoto("gpu_server")
       ELSE WhisperGoto("locally")
    /\ UNCHANGED <<processing_progress, db, job, inp, pc, loc, calls, started, resp,
                   DB_AVAILABLE, extraction, ai_request>>

\* whisper_client.py:63-100 called at 38-42: its exception is caught and
\* _process_locally is tried
process_with_local_script(env) ==
    /\ whisper.at = "local_script"
    /\ IF env.script = "ok" THEN WhisperReturn(Transcribed(env), TRUE)
       ELSE WhisperGoto("locally")
    /\ UNCHANGED <<processing_progress, db, job, inp, pc, loc, calls, started, resp,
                   DB_AVAILABLE, extraction, ai_request>>

\* the call of 55-59 as it would be without the except clause of 57-59
process_with_gpu_server_Propagating(env) ==
    /\ whisper.at = "gpu_server"
    /\ IF env.gpu_server = "ok" THEN WhisperReturn(Transcribed(env), TRUE)
       ELSE WhisperRaise("GPU server processing failed")
    /\ UNCHANGED <<processing_progress, db, job, inp, pc, loc, calls, started, resp,
                   DB_AVAILABLE, extraction, ai_request>>

\* whisper_client.py:102-153 called at 55-59: its exception is caught and
\* _process_locally is tried
process_with_gpu_server(env) ==
    /\ whisper.at = "gpu_server"
    /\ IF env.gpu_server = "ok" THEN WhisperReturn(Transcribed(env), TRUE)
       ELSE WhisperGoto("locally")
    /\ UNCHANGED <<processing_progress, db, job, inp, pc, loc, calls, started, resp,
                   DB_AVAILABLE, extraction, ai_request>>

\* whisper_client.py:155-163
process_locally(env) ==
    /\ whisper.at = "locally"
    /\ IF env.gpu_python /= "absent" THEN WhisperGoto("gpu_python")
       ELSE WhisperGoto("library")
    /\ UNCHANGED <<processing_progress, db, job, inp, pc, loc, calls, started, resp,
                   DB_AVAILABLE, extraction, ai_request>>

\* whisper_client.py:247-320
process_with_gpu_python(env) ==
    /\ whisper.at = "gpu_python"
    /\ IF env.gpu_python = "ok" THEN WhisperReturn(Transcribed(env), TRUE)
       ELSE WhisperRaise("GPU transcription failed")
    /\ UNCHANGED <<processing_progress, db, job, inp, pc, loc, calls, started, resp,
                   DB_AVAILABLE, extraction, ai_request>>

\* whisper_client.py:165-245, the faster_whisper library: a transcription,
\* the dictionary of the ImportError branch (234-242), or the exception of
\* the last branch (243-245)
process_locally_Library(env) ==
    /\ whisper.at = "library"
    /\ CASE env.faster_whisper = "ok" -> WhisperReturn(Transcribed(env), TRUE)
         [] env.faster_whisper = "absent" -> WhisperReturn(InstallNotice, FALSE)
         [] OTHER -> WhisperRaise("Local transcription failed")
    /\ UNCHANGED <<processing_progress, db, job, inp, pc, loc, calls, started, resp,
                   DB_AVAILABLE, extraction, ai_request>>

\* gunicorn.conf.py:10-19, the server runs several worker processes forked
\* from the preloaded app, each with its own processing_progress dict: what a
\* poll answers in a process other than the one that took the submission,
\* where the dict holds no record of the job
JobStatusElsewhere(j, numeric, query_ok) ==
    IF ~DB_AVAILABLE THEN ErrorResponse(404)
    ELSE IF ~numeric THEN ErrorResponse(404)
    ELSE IF ~query_ok THEN ErrorResponse(500)
    ELSE IF j \notin DOMAIN db THEN ErrorResponse(500)
    ELSE DurableResponse(db[j])

\* app.py:777-859, served by another worker process
api_job_status_Elsewhere(j) ==
    /\ \E numeric \in Numeric(j), query_ok \in BOOLEAN :
          resp' = [resp EXCEPT ![j] = Some(JobStatusElsewhere(j, numeric, query_ok))]
    /\ UNCHANGED <<processing_progress, db, job, inp, pc, loc, calls, started,
                   DB_AVAILABLE, followed>>

(***************************************************************************)
(* youtube_processor.get_youtube_transcript, one call followed step by     *)
(* step.                                                                   *)
(***************************************************************************)
\* youtube_processor.py:42, the default language_codes, in order of preference
language_codes == <<"en", "en-US", "en-GB">>

\* the strings a caller passes as url: none at all (None), a watch URL, a
\* youtu.be URL, a playlist URL, and a string that is no YouTube URL
TranscriptUrls == {"none", "watch", "youtu.be", "playlist", "other"}

\* what a call of get_youtube_transcript finds: the url, whether
\* list_transcripts answers, the manual transcripts of the video among the
\* preferred languages, an auto-generated English one, what iterating the
\* list gives, what fetch() gives (entries with 'text', entries without, or
\* an exception), and whether the captions hold words
TranscriptEnvironments ==
    [url : TranscriptUrls, list_transcripts : {"ok", "raises"},
     manual : SUBSET {"en", "en-GB"}, generated : BOOLEAN,
     available : {"some", "none", "raises"},
     fetch : {"ok", "no_text", "raises"}, speech : BOOLEAN]

\* youtube_processor.py:29-40, None (the empty option) when no pattern matches
extract_video_id(url) ==
    IF url \in {"watch", "youtu.be"} THEN Some("video") ELSE None

\* youtube_processor.py:63-69, the first preferred language with a transcript
RECURSIVE find_transcript(_, _)
find_transcript(env, i) ==
    IF i > Len(language_codes) THEN None
    ELSE IF language_codes[i] \in env.manual
         THEN Some([language_code |-> language_codes[i], is_generated |-> FALSE])
         ELSE find_transcript(env, i + 1)

\* youtube_processor.py:63-85, the transcript the three searches settle on
ChosenTranscript(env) ==
    IF ~IsNone(find_transcript(env, 1)) THEN find_transcript(env, 1)
    ELSE IF env.generated THEN Some([language_code |-> "en", is_generated |-> TRUE])
    ELSE IF env.available = "some"
         THEN Some([language_code |-> "de", is_generated |-> FALSE])
    ELSE None

\* youtube_processor.py:94-97, the joined and stripped text of the entries
FullText(env) == IF env.speech THEN << <<"captions", 1>> >> ELSE EmptyText

TranscriptGoto(label) == extraction' = [extraction EXCEPT !.at = label]

\* a return statement of get_youtube_transcript
TranscriptReturn(result) ==
    extraction' = [extraction EXCEPT !.at = "returned", !.result = Some(result)]

\* an exception raised inside the try block of 53-105
TranscriptCaught(what) ==
    extraction' = [extraction EXCEPT !.at = "except", !.exc = ExcText(what)]

\* youtube_processor.py:54-56; url.strip() of None raises AttributeError
get_youtube_transcript(env) ==
    /\ extraction.at = "called"
    /\ IF env.url = "none"
       THEN TranscriptCaught("'NoneType' object has no attribute 'strip'")
       ELSE IF IsNone(extract_video_id(env.url))
       THEN TranscriptReturn([success |-> FALSE,
                              error |-> ExcText("Invalid YouTube URL")])
       ELSE TranscriptGoto("list_transcripts")
    /\ UNCHANGED <<processing_progress, db, job, inp, pc, loc, calls, started, resp,
                   DB_AVAILABLE, whisper, ai_request>>

\* youtube_processor.py:61
get_youtube_transcript_List(env) ==
    /\ extraction.at = "list_transcripts"
    /\ IF env.list_transcripts = "raises"
       THEN TranscriptCaught("TranscriptsDisabled")
       ELSE TranscriptGoto("find")
    /\ UNCHANGED <<processing_progress, db, job, inp, pc, loc, calls, started, resp,
                   DB_AVAILABLE, whisper, ai_request>>

\* youtube_processor.py:63-88, every search swallows its own exception
get_youtube_transcript_Find(env) ==
    /\ extraction.at = "find"
    /\ IF IsNone(ChosenTranscript(env))
       THEN TranscriptReturn(
                [success |-> FALSE,
                 error |-> ExcText("No transcript available for this video")])
       ELSE extraction' = [extraction EXCEPT !.at = "fetch",
                                             !.transcript = ChosenTranscript(env)]
    /\ UNCHANGED <<processing_progress, db, job, inp, pc, loc, calls, started, resp,
                   DB_AVAILABLE, whisper, ai_request>>

\* youtube_processor.py:91-105
get_youtube_transcript_Fetch(env) ==
    /\ extraction.at = "fetch"
    /\ CASE env.fetch = "raises" -> TranscriptCaught("CouldNotRetrieveTranscript")
         [] env.fetch = "no_text" -> TranscriptCaught("'text'")
         [] OTHER ->
              TranscriptReturn(
                  [success |-> TRUE, text |-> FullText(env),
                   language |-> The(extraction.transcript).language_code,
                   is_generated |-> The(extraction.transcript).is_generated,
                   video_id |-> The(extract_video_id(env.url))])
    /\ UNCHANGED <<processing_progress, db, job, inp, pc, loc, calls, started, resp,
                   DB_AVAILABLE, whisper, ai_request>>

\* the handler of 107-109 as it would be if it raised the exception again
get_youtube_transcript_Reraise(env) ==
    /\ extraction.at = "except"
    /\ TranscriptGoto("raised")
    /\ UNCHANGED <<processing_progress, db, job, inp, pc, loc, calls, started, resp,
                   DB_AVAILABLE, whisper, ai_request>>

\* youtube_processor.py:107-109
get_youtube_transcript_Except(env) ==
    /\ extraction.at = "except"
    /\ TranscriptReturn([success |-> FALSE, error |-> extraction.exc])
    /\ UNCHANGED <<processing_progress, db, job, inp, pc, loc, calls, started, resp,
                   DB_AVAILABLE, whisper, ai_request>>

(***************************************************************************)
(* POST /api/process-text-with-ai, one request followed step by step.      *)
(***************************************************************************)
\* llm_processor.py:13
DEFAULT_MODEL == "llama2"

\* llm_processor.py:57-78, the keys of prompts
PromptTypes == {"summarize", "critique", "expand", "explain", "custom"}

\* what the Ollama server does with a request: its HTTP answer (or a timeout, or
\* a connection error) and the 'response' of its JSON body
OllamaOutcomes ==
    [http : {"200", "500", "timeout", "connection_error"},
     response : {EmptyText, << <<"analysis", "processed_text">> >>}]

\* what a request to /api/process-text-with-ai holds and finds: a JSON body or
\* none, 'text' and 'prompt' after strip() (a prompt may be empty, free text or
\* the name of a prompt type), the two switches, the Ollama server and whether
\* the markdown file can be written
AiRequests ==
    [json : BOOLEAN, text : {EmptyText, << <<"text", "words">> >>},
     prompt : {"", "List the action items", "custom"},
     save_to_openqm : BOOLEAN, export_markdown : BOOLEAN, writable : BOOLEAN,
     ollama : OllamaOutcomes]

\* a Python value handed to jsonify: a str or a dict
Str(text) == [type |-> "str", value |-> text]

Dict(record) == [type |-> "dict", value |-> record]

\* bool(value): an empty str and an empty dict are false
TruthyValue(v) ==
    IF v.type = "str" THEN Truthy(v.value) ELSE DOMAIN v.value /= {}

\* llm_processor.py:36-134: always a dict, with success True only for HTTP 200
process_text_with_llm(text, processing_type, custom_prompt, model, ollama) ==
    IF ~Truthy(text)
    THEN Dict([success |-> FALSE, error |-> ExcText("No text provided")])
    ELSE CASE ollama.http = "200" ->
                Dict([success |-> TRUE, original_text |-> text,
                      processed_text |-> ollama.response,
                      processing_type |-> IF processing_type \in PromptTypes
                                          THEN processing_type ELSE "summarize",
                      model |-> IF IsNone(model) THEN DEFAULT_MODEL ELSE The(model)])
           [] ollama.http = "500" ->
                Dict([success |-> FALSE, error |-> ExcText("Ollama API error: 500")])
           [] ollama.http = "timeout" ->
                Dict([success |-> FALSE,
                      error |-> ExcText("Ollama request timed out after 5 minutes")])
           [] OTHER ->
                Dict([success |-> FALSE,
                      error |-> ExcText("Error processing text with Ollama")])

\* a return of the handler: the HTTP status and the JSON body
AiRespond(status, body) ==
    ai_request' = [ai_request EXCEPT !.at = "responded",
                                     !.response = Some([status |-> status, body |-> body])]

\* app.py:864-877; get_json() of a request without a JSON body is None, and
\* its .get raises into the handler of 932-934
api_process_text_with_ai(req) ==
    /\ ai_request.at = "called"
    /\ IF ~req.json
       THEN AiRespond(500, [error |-> ExcText("AI processing failed")])
       ELSE IF ~Truthy(req.text)
       THEN AiRespond(400, [error |-> ExcText("No text provided")])
       ELSE ai_request' =
              [ai_request EXCEPT !.at = "llm",
                                 !.prompt = IF req.prompt = ""
                                            THEN "Summarize this text in 3-5 key points"
                                            ELSE req.prompt]
    /\ UNCHANGED <<processing_progress, db, job, inp, pc, loc, calls, started, resp,
                   DB_AVAILABLE, whisper, extraction>>

\* app.py:882-886: the call is positional, so the prompt arrives as
\* processing_type, the model name as custom_prompt, and model stays None
api_process_text_with_ai_Llm(req) ==
    /\ ai_request.at = "llm"
    /\ LET processed_text ==
              process_text_with_llm(req.text, ai_request.prompt, Some("llama2"), None,
                                    req.ollama)
       IN IF ~TruthyValue(processed_text)
          THEN AiRespond(500, [error |->
                                 ExcText("AI processing failed to generate output")])
          ELSE ai_request' = [ai_request EXCEPT !.at = "save",
                                                !.processed_text = Some(processed_text)]
    /\ UNCHANGED <<processing_progress, db, job, inp, pc, loc, calls, started, resp,
                   DB_AVAILABLE, whisper, extraction>>

\* app.py:891-903: openqm_client defines no save_to_openqm, so the import of
\* 893 raises and the handler of 902 logs it
api_process_text_with_ai_Save(req) ==
    /\ ai_request.at = "save"
    /\ ai_request' = [ai_request EXCEPT !.at = "export"]
    /\ UNCHANGED <<processing_progress, db, job, inp, pc, loc, calls, started, resp,
                   DB_AVAILABLE, whisper, extraction>>

\* app.py:905-924
api_process_text_with_ai_Export(req) ==
    /\ ai_request.at = "export"
    /\ ai_request' =
          [ai_request EXCEPT !.at = "respond",
                             !.result_files =
                                 IF req.export_markdown /\ req.writable
                                 THEN Append(@, <<"export", "markdown">>) ELSE @]
    /\ UNCHANGED <<processing_progress, db, job, inp, pc, loc, calls, started, resp,
                   DB_AVAILABLE, whisper, extraction>>

\* app.py:926-930
api_process_text_with_ai_Respond(req) ==
    /\ ai_request.at = "respond"
    /\ AiRespond(200, [success |-> TRUE,
                       processed_text |-> The(ai_request.processed_text),
                       files |-> ai_request.result_files])
    /\ UNCHANGED <<processing_progress, db, job, inp, pc, loc, calls, started, resp,
                   DB_AVAILABLE, whisper, extraction>>

(***************************************************************************)
(* Specifications.                                                         *)
(***************************************************************************)
\* a submission of any kind for job identifier j
Submit(j) ==
    \/ \E files \in SeqsUpTo(UploadExtensions, MaxFiles) :
          process_audio_files_directly(j, files)
    \/ process_audio_files_directly_Start(j)
    \/ api_process_youtube(j)
    \/ api_process_youtube_Start(j)
    \/ \E config \in DurableJobs : api_process_job(j, config)
    \/ \E config \in TtsJobs : api_process_job_Unavailable(j, config)
    \/ \E input_type \in MalformedInputs : api_process_BadRequest(j, input_type)
    \/ process_job_async(j)

\* a worker thread of job j takes a step
Work(j) ==
    \/ process_async(j)
    \/ process_youtube_async(j)
    \/ process_job_worker(j)

\* one job from submission to the end of its worker thread
Next ==
    \/ Submit(1)
    \/ Work(1)

Spec == Init /\ [][Next]_vars

\* the submissions of the concurrent runs: an upload of one file, a YouTube
\* URL, a text for text-to-speech
SubmitConcurrent(j) ==
    \/ \E files \in SeqsUpTo(UploadExtensions, 1) :
          process_audio_files_directly(j, files)
    \/ process_audio_files_directly_Start(j)
    \/ api_process_youtube(j)
    \/ api_process_youtube_Start(j)
    \/ \E config \in TtsJobs : api_process_job(j, config)
    \/ process_job_async(j)

\* the steps of process_job_worker a text-to-speech job takes
process_job_worker_OfTts(j) ==
    \/ process_job_worker_Get(j)
    \/ process_job_worker_Start(j)
    \/ process_job_worker_Dispatch(j)
    \/ process_job_worker_Tts40(j)
    \/ process_job_worker_Tts(j)
    \/ process_job_worker_LlmWanted(j)
    \/ process_job_worker_Render80(j)
    \/ process_job_worker_Render(j)
    \/ process_job_worker_RenderDone(j)
    \/ process_job_worker_Complete(j)
    \/ process_job_worker_Except(j)
    \/ process_job_worker_Failed(j)

\* MaxJobs jobs submitted at any time, their threads interleaved
NextConcurrent ==
    \E j \in JobIds :
       \/ SubmitConcurrent(j)
       \/ process_async(j)
       \/ process_youtube_async(j)
       \/ process_job_worker_OfTts(j)

SpecConcurrent == Init /\ [][NextConcurrent]_vars

\* an in-memory job, its thread, and a client whose polls reach any of the
\* server's worker processes
NextProcesses ==
    \/ \E files \in SeqsUpTo(UploadExtensions, MaxFiles) :
          process_audio_files_directly(1, files)
    \/ process_audio_files_directly_Start(1)
    \/ api_process_youtube(1)
    \/ api_process_youtube_Start(1)
    \/ process_async(1)
    \/ process_youtube_async(1)
    \/ api_job_status(1)
    \/ api_job_status_Elsewhere(1)

SpecProcesses == Init /\ [][NextProcesses]_vars

\* a call of send_to_whisper in any environment
InitWhisper ==
    /\ whisper \in [env : WhisperEnvironments, at : {"called"}, text : {EmptyText},
                     produced : {FALSE}, tried : {<<>>}]
    /\ extraction = NoWhisperCall
    /\ ai_request = NoWhisperCall
    /\ processing_progress = <<>>
    /\ db = <<>>
    /\ job = [j \in JobIds |-> None]
    /\ inp = [j \in JobIds |-> NoInput]
    /\ pc = [j \in JobIds |-> "unborn"]
    /\ loc = [j \in JobIds |-> NoLocals]
    /\ calls = [j \in JobIds |-> NoCalls]
    /\ started = [j \in JobIds |-> 0]
    /\ resp = [j \in JobIds |-> None]
    /\ DB_AVAILABLE = FALSE

NextWhisper ==
    \/ send_to_whisper(whisper.env)
    \/ process_with_local_script(whisper.env)
    \/ process_with_gpu_server(whisper.env)
    \/ process_locally(whisper.env)
    \/ process_with_gpu_python(whisper.env)
    \/ process_locally_Library(whisper.env)

SpecWhisper == InitWhisper /\ [][NextWhisper]_vars

\* no job is submitted and no call of send_to_whisper is followed
NoJobs ==
    /\ whisper = NoWhisperCall
    /\ processing_progress = <<>>
    /\ db = <<>>
    /\ job = [j \in JobIds |-> None]
    /\ inp = [j \in JobIds |-> NoInput]
    /\ pc = [j \in JobIds |-> "unborn"]
    /\ loc = [j \in JobIds |-> NoLocals]
    /\ calls = [j \in JobIds |-> NoCalls]
    /\ started = [j \in JobIds |-> 0]
    /\ resp = [j \in JobIds |-> None]
    /\ DB_AVAILABLE = FALSE

\* a call of get_youtube_transcript in any environment
InitTranscript ==
    /\ extraction \in [env : TranscriptEnvironments, at : {"called"},
                        transcript : {None}, exc : {EmptyText}, result : {None}]
    /\ ai_request = NoWhisperCall
    /\ NoJobs

NextTranscript ==
    \/ get_youtube_transcript(extraction.env)
    \/ get_youtube_transcript_List(extraction.env)
    \/ get_youtube_transcript_Find(extraction.env)
    \/ get_youtube_transcript_Fetch(extraction.env)
    \/ get_youtube_transcript_Except(extraction.env)

SpecTranscript == InitTranscript /\ [][NextTranscript]_vars

\* a request to /api/process-text-with-ai of any kind
InitAi ==
    /\ ai_request \in [req : AiRequests, at : {"called"}, prompt : {""},
                        processed_text : {None}, result_files : {<<>>},
                        response : {None}]
    /\ extraction = NoWhisperCall
    /\ NoJobs

NextAi ==
    \/ api_process_text_with_ai(ai_request.req)
    \/ api_process_text_with_ai_Llm(ai_request.req)
    \/ api_process_text_with_ai_Save(ai_request.req)
    \/ api_process_text_with_ai_Export(ai_request.req)
    \/ api_process_text_with_ai_Respond(ai_request.req)

SpecAi == InitAi /\ [][NextAi]_vars

\* app.py:1018-1019, a durable YouTube job with the default options
\* (pullTranscript True, transcribeAudio False) and no AI block
DefaultYoutubeJobs ==
    {config \in DurableJobs :
        /\ config.input_type = "youtube"
        /\ config.pull_transcript /\ ~config.transcribe_audio
        /\ ~config.llm}

\* the steps of process_job_worker a YouTube job without AI block takes
process_job_worker_OfYoutube(j) ==
    \/ process_job_worker_Get(j)
    \/ process_job_worker_Start(j)
    \/ process_job_worker_Dispatch(j)
    \/ process_job_worker_Youtube30(j)
    \/ process_job_worker_YoutubeOptions(j)
    \/ process_job_worker_Youtube35(j)
    \/ process_job_worker_Transcript(j)
    \/ process_job_worker_Decide(j)
    \/ process_job_worker_Youtube50(j)
    \/ process_job_worker_Download(j)
    \/ process_job_worker_AudioProgress(j)
    \/ process_job_worker_Audio(j)
    \/ process_job_worker_AudioDone(j)
    \/ process_job_worker_Combine(j)
    \/ process_job_worker_LlmWanted(j)
    \/ process_job_worker_Render80(j)
    \/ process_job_worker_Render(j)
    \/ process_job_worker_RenderDone(j)
    \/ process_job_worker_Complete(j)
    \/ process_job_worker_Except(j)
    \/ process_job_worker_Failed(j)

\* one YouTube source taken down both paths: job 1 through api_process and
\* process_youtube_async, job 2 as a ProcessingJob row through
\* process_job_worker
NextPaths ==
    \/ api_process_youtube(1)
    \/ api_process_youtube_Start(1)
    \/ process_youtube_async(1)
    \/ \E config \in DefaultYoutubeJobs : api_process_job(2, config)
    \/ process_job_async(2)
    \/ process_job_worker_OfYoutube(2)

SpecPaths == Init /\ [][NextPaths]_vars

\* the durable jobs the polled runs take: every job_type, input_type, file
\* count, YouTube option and LLM choice, with mp3 or pdf files and the formats
\* text and xml (one that renders, one that does not)
PolledJobs ==
    {config \in DurableJobs :
        /\ config.output_formats \in {<<"mp3">>, <<"text", "xml">>}
        /\ config.file_type \in {"none", "mp3", "pdf"}}

\* a submission of any kind for job identifier j, in a polled run
SubmitPolled(j) ==
    \/ \E files \in SeqsUpTo(UploadExtensions, MaxFiles) :
          process_audio_files_directly(j, files)
    \/ process_audio_files_directly_Start(j)
    \/ api_process_youtube(j)
    \/ api_process_youtube_Start(j)
    \/ \E config \in PolledJobs : api_process_job(j, config)
    \/ \E config \in TtsJobs : api_process_job_Unavailable(j, config)
    \/ \E input_type \in MalformedInputs : api_process_BadRequest(j, input_type)
    \/ process_job_async(j)

\* one job and a client polling its status
NextPoll ==
    \/ SubmitPolled(1)
    \/ Work(1)
    \/ api_job_status(1)

SpecPoll == Init /\ [][NextPoll]_vars

(***************************************************************************)
(* What the claims speak of.                                               *)
(***************************************************************************)
Terminal == {"completed", "failed"}

\* the status stored for a submitted job: its progress record's, else its row's
StoredStatus(j) ==
    IF j \in DOMAIN processing_progress THEN processing_progress[j].status
    ELSE db[j].status

\* job j is a YouTube job, in memory or durable
YoutubeJob(j) ==
    \/ inp[j].kind = "youtube"
    \/ /\ inp[j].kind = "durable"
       /\ inp[j].job_type = "transcription"
       /\ inp[j].input_type = "youtube"

\* every result text a job holds: in its progress record, in its committed row
\* and in its worker's session
ResultTexts(j) ==
    {The(r) : r \in {x \in ( (IF j \in DOMAIN processing_progress
                              THEN {processing_progress[j].result} ELSE {})
                             \cup (IF j \in DOMAIN db THEN {db[j].result_text} ELSE {})
                             \cup (IF IsNone(job[j]) THEN {}
                                   ELSE {The(job[j]).result_text}) ) : ~IsNone(x)}}

\* the text has no section, label or error marker of an audio transcription
NoAudioProvenance(text) ==
    \A k \in 1..Len(text) :
       /\ text[k][1] \notin {"speech", "Error transcribing"}
       /\ ~(text[k][1] = "label"
            /\ text[k][2] \in {"Audio Transcription", "Audio Transcription (Error)"})

\* a durable-store call (query or commit) of job j's worker raised
DbFailed(j) ==
    loc[j].exc \in {ExcText("db.session.commit"), ExcText("ProcessingJob.query.get")}

\* the last answer of api_job_status for job j, when it was a 200
Polled(j) == ~IsNone(resp[j]) /\ The(resp[j]).code = 200

(***************************************************************************)
(* C1: across the status polls of a job, the reported progress_percentage  *)
(* never decreases.  Stated of two successive answers for the same job.    *)
(***************************************************************************)
C1_ProgressNeverDecreases ==
    [][\A j \in JobIds :
          (Polled(j) /\ ~IsNone(resp'[j]) /\ The(resp'[j]).code = 200)
             => The(resp'[j]).progress_percentage >= The(resp[j]).progress_percentage]_vars

(***************************************************************************)
(* C2: a poll of an in-memory job that answers 'completed' also answers    *)
(* progress_percentage 100 and a non-empty result_text.                    *)
(***************************************************************************)
C2_CompletedIsWhole ==
    \A j \in JobIds :
       (Polled(j) /\ inp[j].kind \in {"audio", "youtube"}
          /\ The(resp[j]).status = "completed")
       => /\ The(resp[j]).progress_percentage = 100
          /\ ~IsNone(The(resp[j]).result_text)
          /\ Truthy(The(The(resp[j]).result_text))

(***************************************************************************)
(* C3: a row process_job_worker commits as 'completed' has a non-empty     *)
(* result_text or at least one result file.                                *)
(***************************************************************************)
C3_CompletedHasResult ==
    \A j \in DOMAIN db :
       db[j].status = "completed"
       => \/ HasText(db[j])
          \/ ~IsNone(db[j].result_files) /\ Len(The(db[j].result_files)) > 0

(***************************************************************************)
(* C4: in every answer of a poll, progress_percentage is 100 exactly when  *)
(* the status is 'completed'.                                              *)
(***************************************************************************)
C4_HundredIffCompleted ==
    \A j \in JobIds :
       Polled(j)
       => (The(resp[j]).progress_percentage = 100 <=> The(resp[j]).status = "completed")

(***************************************************************************)
(* C5: a poll that answers 'failed' answers a non-empty error_message, the *)
(* text of the exception that failed the job.                              *)
(***************************************************************************)
C5_FailedCarriesCause ==
    \A j \in JobIds :
       (Polled(j) /\ The(resp[j]).status = "failed")
       => /\ ~IsNone(The(resp[j]).error_message)
          /\ Truthy(The(The(resp[j]).error_message))
          /\ The(The(resp[j]).error_message) = loc[j].exc

(***************************************************************************)
(* C6: once a job's record is 'completed' or 'failed', no step changes its *)
(* status, progress, message or result.                                    *)
(***************************************************************************)
C6_TerminalIsWriteOnce ==
    [][\A j \in JobIds :
          /\ (j \in DOMAIN processing_progress
                /\ processing_progress[j].status \in Terminal)
             => /\ processing_progress'[j].status = processing_progress[j].status
                /\ processing_progress'[j].progress = processing_progress[j].progress
                /\ processing_progress'[j].message = processing_progress[j].message
                /\ processing_progress'[j].result = processing_progress[j].result
          /\ (j \in DOMAIN db /\ db[j].status \in Terminal)
             => db'[j] = db[j]]_vars

(***************************************************************************)
(* C7: every dispatched job reaches 'completed' or 'failed'.  Every worker *)
(* thread ends (its loops are bounded), so the claim is that a job whose   *)
(* thread has ended is terminal.                                           *)
(***************************************************************************)
C7_EndedJobIsTerminal ==
    \A j \in JobIds :
       pc[j] \in {"done", "dead"} => StoredStatus(j) \in Terminal

(***************************************************************************)
(* C8: in a YouTube job whose transcript extraction succeeds, the download *)
(* is never invoked and no result text has an audio-transcription section  *)
(* or label.                                                               *)
(***************************************************************************)
C8_TranscriptFoundNoDownload ==
    \A j \in JobIds :
       (YoutubeJob(j) /\ loc[j].transcript = "success")
       => /\ calls[j].download = 0
          /\ \A text \in ResultTexts(j) : NoAudioProvenance(text)

(***************************************************************************)
(* C8, amended: the same, for a job whose caller did not request audio     *)
(* transcription (youtubeOptions.transcribeAudio false, the default).      *)
(***************************************************************************)
C8_TranscriptFoundNoDownloadUnlessRequested ==
    \A j \in JobIds :
       (YoutubeJob(j) /\ loc[j].transcript = "success" /\ ~inp[j].transcribe_audio)
       => /\ calls[j].download = 0
          /\ \A text \in ResultTexts(j) : NoAudioProvenance(text)

\* a durable YouTube job without transcribeAudio has completed on its transcript
C8_Witness ==
    \E j \in DOMAIN db :
       /\ YoutubeJob(j) /\ ~inp[j].transcribe_audio
       /\ loc[j].transcript = "success"
       /\ calls[j].get_youtube_transcript = 1
       /\ db[j].status = "completed"
       /\ HasText(db[j])

(***************************************************************************)
(* C9: in a YouTube job whose transcript extraction fails, the fallback is *)
(* invoked exactly once, requested or not, and its outcome is the job's:   *)
(* the job fails exactly when no downloaded file was transcribed and else  *)
(* completes with a result.  Stated of ended jobs whose durable-store      *)
(* calls all succeeded.                                                    *)
(***************************************************************************)
C9_FallbackOnceAndItsOutcome ==
    \A j \in JobIds :
       (YoutubeJob(j) /\ loc[j].transcript = "failure" /\ pc[j] = "done"
          /\ ~DbFailed(j))
       => /\ calls[j].download = 1
          /\ loc[j].transcribed = 0 <=> StoredStatus(j) = "failed"
          /\ StoredStatus(j) = "completed" => ResultTexts(j) # {}

(***************************************************************************)
(* C10: a YouTube job whose transcript extraction and fallback both fail   *)
(* (no downloaded media file was transcribed) never is 'completed'.        *)
(***************************************************************************)
C10_BothFailedNeverCompleted ==
    \A j \in JobIds :
       (YoutubeJob(j) /\ loc[j].transcript = "failure" /\ loc[j].transcribed = 0
          /\ (j \in DOMAIN processing_progress \/ j \in DOMAIN db))
       => StoredStatus(j) # "completed"

(***************************************************************************)
(* Per-file failures.                                                      *)
(***************************************************************************)
\* a job over uploaded media files, in memory or durable
FileJob(j) ==
    \/ inp[j].kind = "audio"
    \/ /\ inp[j].kind = "durable"
       /\ inp[j].job_type = "transcription"
       /\ inp[j].input_type = "file"

\* the result a job has stored: its progress record's, else its row's
StoredResult(j) ==
    IF j \in DOMAIN processing_progress THEN processing_progress[j].result
    ELSE db[j].result_text

\* the text is one of the inline error strings of app.py:433, 1007, 1064, 1095
IsErrorMarker(text) ==
    /\ Len(text) > 0
    /\ text[1][1] \in {"Error processing", "Error processing file",
                      "Error transcribing", "Error processing document"}

\* the steps whose failure is a failure to convert or to transcribe a file
PrimarySteps == {"convert_mp3_to_wav", "send_to_whisper"}

\* the error strings the k-th file of job j gets when a primary step raises
PrimaryMarkers(j, k) ==
    IF inp[j].kind = "audio"
    THEN {AudioErrorMarker(k, ExcText(step)) : step \in PrimarySteps}
    ELSE {FileErrorMarker(ExcText(step)) : step \in PrimarySteps}

\* the positions of all_transcriptions that hold an error string
FailedEntries(j) ==
    {k \in 1..Len(loc[j].all_transcriptions) :
        IsErrorMarker(loc[j].all_transcriptions[k])}

\* nothing but conversions and transcriptions raised in job j's worker: no
\* file write, no os.remove, no durable-store call
OnlyPrimaryFailures(j) ==
    /\ ~DbFailed(j)
    /\ loc[j].exc # ExcText("os.remove")
    /\ \A k \in FailedEntries(j) :
          LET text == loc[j].all_transcriptions[k]
          IN text[Len(text)] \in {<<"exc", step>> : step \in PrimarySteps}

DocumentJob(j) ==
    /\ inp[j].kind = "durable"
    /\ inp[j].job_type = "document_processing"

(***************************************************************************)
(* C12: a job whose every input file failed its primary step (each entry   *)
(* of the aggregate is an error string) is not 'completed'.                *)
(***************************************************************************)
C12_AllFailedIsFailed ==
    \A j \in JobIds :
       (/\ FileJob(j) \/ DocumentJob(j)
        /\ Len(inp[j].files) > 0
        /\ Len(loc[j].all_transcriptions) = Len(inp[j].files)
        /\ FailedEntries(j) = 1..Len(inp[j].files))
       => StoredStatus(j) # "completed"

(***************************************************************************)
(* Output rendering.                                                       *)
(***************************************************************************)
RECURSIVE IsSubsequence(_, _)
\* s is t with some elements left out
IsSubsequence(s, t) ==
    IF Len(s) = 0 THEN TRUE
    ELSE IF Len(t) = 0 THEN FALSE
    ELSE IF s[1] = t[1] THEN IsSubsequence(Tail(s), Tail(t))
    ELSE IsSubsequence(s, Tail(t))

\* os.path.basename(output_file) of each format generate_output_file returned
RenderedArtifacts(rendered) == [k \in 1..Len(rendered) |-> <<"file", rendered[k]>>]

\* the result files the stages before rendering add: the audio file of a
\* text-to-speech job (app.py:1081), the markdown export of an AI analysis
\* that was made (app.py:1139-1151)
EarlierArtifacts(j) ==
    LET text == The(db[j].result_text)
    IN IF inp[j].job_type = "tts" THEN << <<"audio", "mp3">> >>
       ELSE IF inp[j].export_markdown /\ text[Len(text)][1] = "analysis"
            THEN << <<"export", "markdown">> >>
       ELSE <<>>

\* the worker of a durable job has ended, its durable-store calls succeeded
\* and its row has a result text
EndedWithText(j) ==
    /\ inp[j].kind = "durable" /\ pc[j] = "done"
    /\ ~DbFailed(j)
    /\ HasText(db[j])

(***************************************************************************)
(* C13: a durable job with a result text is 'completed' whichever of its   *)
(* requested formats failed to render, and its result_files are exactly    *)
(* the artifacts of the formats that rendered, in requested order.         *)
(***************************************************************************)
C13_ResultFilesAreTheRendered ==
    \A j \in JobIds :
       EndedWithText(j)
       => /\ db[j].status = "completed"
          /\ IsSubsequence(calls[j].rendered, inp[j].output_formats)
          /\ db[j].result_files = Some(RenderedArtifacts(calls[j].rendered))

(***************************************************************************)
(* C13, amended: the same, the result_files being the artifacts of the     *)
(* earlier stages (the text-to-speech audio file, the markdown export of   *)
(* an AI analysis) followed by those of the formats that rendered.         *)
(***************************************************************************)
C13_ResultFilesEndWithTheRendered ==
    \A j \in JobIds :
       EndedWithText(j)
       => /\ db[j].status = "completed"
          /\ IsSubsequence(calls[j].rendered, inp[j].output_formats)
          /\ db[j].result_files =
                Some(EarlierArtifacts(j) \o RenderedArtifacts(calls[j].rendered))

\* a job that asked for text and pdf has completed with the text artifact
\* alone, the pdf having failed to render
C13_Witness ==
    \E j \in JobIds :
       /\ EndedWithText(j)
       /\ inp[j].output_formats = <<"text", "pdf">>
       /\ calls[j].render = <<"text", "pdf">>
       /\ calls[j].rendered = <<"text">>
       /\ db[j].status = "completed"
       /\ db[j].result_files = Some(<< <<"file", "text">> >>)

(***************************************************************************)
(* Dispatch and poll.                                                      *)
(***************************************************************************)
\* where a job is between the creation of its record and its worker's first
\* step
FirstSteps == {"a_saving", "y_starting", "w_starting",
               "a_progress10", "y_progress10", "w_get"}

(***************************************************************************)
(* C14: while a submitted job's worker has not run a step, a poll answers  *)
(* 'pending' or 'processing', and the job's stored status is not           *)
(* 'completed'.                                                            *)
(***************************************************************************)
C14_NoCompletionBeforeWork ==
    \A j \in JobIds :
       pc[j] \in FirstSteps
       => /\ StoredStatus(j) # "completed"
          /\ Polled(j) => The(resp[j]).status \in {"pending", "processing"}

\* a durable job was polled before its worker ran, and answered 'pending'
C14_Witness ==
    \E j \in JobIds :
       /\ pc[j] = "w_get"
       /\ Polled(j)
       /\ The(resp[j]).status = "pending"

\* job j's submission was answered with success and its job_id
Accepted(j) ==
    pc[j] \notin {"unborn", "a_saving", "y_starting", "w_starting", "h_400", "h_500", "h_503"}

\* job j has a progress record or a row
HasRecord(j) == j \in DOMAIN processing_progress \/ j \in DOMAIN db

(***************************************************************************)
(* C15: no job identifier ever has more than one worker thread started; an *)
(* accepted submission has exactly one; and a thread is started only for   *)
(* an identifier whose record exists.                                      *)
(***************************************************************************)
C15_ExactlyOneWorker ==
    \A j \in JobIds :
       /\ started[j] <= 1
       /\ Accepted(j) => started[j] = 1
       /\ started[j] >= 1 => HasRecord(j)

\* a durable job's only worker thread has run to its end
C15_Witness ==
    \E j \in JobIds :
       /\ inp[j].kind = "durable"
       /\ Accepted(j) /\ pc[j] = "done"
       /\ started[j] = 1
       /\ j \in DOMAIN db

\* what the precedence rule asks of a poll for j: the progress record's
\* answer, else the row's answer, else 404 'Job not found'
ExpectedStatus(j) ==
    IF j \in DOMAIN processing_progress THEN InMemoryResponse(processing_progress[j])
    ELSE IF DB_AVAILABLE /\ j \in DOMAIN db THEN DurableResponse(db[j])
    ELSE ErrorResponse(404)

\* C16: a status poll answers from the in-memory progress record when one
\* exists, otherwise from the durable row when one exists, and answers
\* 'not found' (404) when neither exists, the database is unavailable or the
\* identifier is not an integer.
C16_PollPrecedence ==
    [][\A j \in JobIds :
          resp'[j] /= resp[j] => The(resp'[j]) = ExpectedStatus(j)]_vars

\* the submission of j was valid and was answered 503 because the database
\* could not be written
RejectedForDatabase(j) == pc[j] = "h_503"

\* C17: with the durable store unreachable, a valid submission of any job
\* type is still accepted: it is never turned away for lack of the database,
\* and once its worker has ended it is tracked in the in-memory progress store
\* in a terminal state.
C17_AcceptedWithoutDatabase ==
    \A j \in JobIds :
       /\ ~RejectedForDatabase(j)
       /\ (~DB_AVAILABLE /\ pc[j] \in {"done", "dead"}) =>
             /\ j \in DOMAIN processing_progress
             /\ processing_progress[j].status \in Terminal

\* the worker of j left its pipeline because a db.session.commit raised
AbortedByWrite(j) ==
    /\ pc[j] \in {"w_except", "w_failed", "done", "dead"}
    /\ loc[j].exc = ExcText("db.session.commit")

\* C18: a failure of a durable-store write made while a job is processed
\* (status, progress or result commit) never aborts the job's pipeline: no
\* worker is in its failure handler, or has ended, because a commit raised.
C18_WriteFailureDoesNotAbort ==
    \A j \in JobIds : inp[j].kind = "durable" => ~AbortedByWrite(j)

\* the submission of j was malformed or unsupported: api_process found no
\* file, no valid URL, no text or no known input type, or every uploaded file
\* has an extension allowed_file refuses
Malformed(j) ==
    \/ inp[j].kind = "malformed"
    \/ inp[j].kind = "audio" /\ inp[j].files = <<>>

\* C19: a malformed or unsupported submission is rejected before any job is
\* created: it has no progress record and no job record, and no worker is
\* started for it.
C19_MalformedCreatesNothing ==
    \A j \in JobIds : Malformed(j) => ~HasRecord(j) /\ started[j] = 0

\* job j is a YouTube job of process_job_worker
DurableYoutubeJob(j) ==
    /\ inp[j].kind = "durable"
    /\ inp[j].job_type = "transcription"
    /\ inp[j].input_type = "youtube"

\* the sources job j acquired: its transcript if get_youtube_transcript
\* succeeded, and each audio file download_youtube_audio returned
AcquiredSources(j) ==
    (IF loc[j].transcript = "success" THEN 1 ELSE 0) + loc[j].n_audio

\* the labels of the '=== source ===' headers of a text, in order
Labels(text) ==
    LET headers == SelectSeq(text, LAMBDA token : token[1] = "label")
    IN [k \in 1..Len(headers) |-> headers[k][2]]

AudioLabels == {"Audio Transcription", "Audio Transcription (Error)"}

\* job j has just combined its results (app.py:1066-1073)
Combined(j) == DurableYoutubeJob(j) /\ pc[j] = "w_llm"

\* C20: a YouTube job that acquired several sources (its transcript and its
\* audio transcriptions) has as result text one labelled section per source in
\* the order of acquisition, the transcript first and then the audio, each
\* under its source's label; a job with a single source has that source's
\* text alone.
C20_OneLabelledSectionPerSource ==
    \A j \in JobIds :
       Combined(j) =>
          LET result_text == The(The(job[j]).result_text)
              labels == Labels(result_text)
              n == AcquiredSources(j)
          IN /\ n >= 2 =>
                   /\ Segments(result_text) = n
                   /\ Len(labels) = n
                   /\ result_text[1][1] = "label"
                   /\ \A k \in 1..n :
                         IF k = 1 /\ loc[j].transcript = "success"
                         THEN labels[k] = "YouTube Transcript (en)"
                         ELSE labels[k] \in AudioLabels
             /\ n = 1 =>
                   /\ Len(labels) = 0
                   /\ result_text = loc[j].all_transcriptions[1]

\* the steps of process_async inside one turn of its loop over saved_files
\* (app.py:356-434): file loc[j].cur is being processed
FileSteps ==
    {"a_msg_processing", "a_convert", "a_msg_transcribing", "a_ffprobe",
     "a_whisper", "a_cb_progress", "a_msg_saving", "a_save", "a_except"}

\* C21: in an audio job with N files, while file i is being processed the
\* progress written lies in file i's sub-window
\* [20 + (i-1)*60/N, 20 + i*60/N] of the 20..80 transcribe budget.
C21_ProgressInFileWindow ==
    \A j \in JobIds :
       (inp[j].kind = "audio" /\ pc[j] \in FileSteps) =>
          LET N == total_files(j)
              i == loc[j].cur
              progress == processing_progress[j].progress
          IN /\ (i - 1) * 60 <= N * (progress - 20)
             /\ N * (progress - 20) <= i * 60

RecordOf(j) ==
    <<IF j \in DOMAIN processing_progress THEN Some(processing_progress[j]) ELSE None,
      IF j \in DOMAIN db THEN Some(db[j]) ELSE None>>

\* C23: with jobs running concurrently, a job's record is written only by the
\* job's own handler and worker: a step that changes job b's record is a step
\* of job b and of no other job, so no step of job a, its failure path
\* included, changes a field of job b's record.
C23_OnlyOwnWorkerWrites ==
    [][\A b \in JobIds :
          RecordOf(b)' /= RecordOf(b) =>
             /\ pc'[b] /= pc[b]
             /\ \A a \in JobIds \ {b} :
                   /\ pc'[a] = pc[a]
                   /\ loc'[a] = loc[a]
                   /\ job'[a] = job[a]]_vars

\* two jobs ran together, one failed and the other completed
C23_Witness ==
    \E a \in JobIds, b \in JobIds :
       /\ a /= b
       /\ pc[a] = "done" /\ pc[b] = "done"
       /\ a \in DOMAIN processing_progress /\ b \in DOMAIN processing_progress
       /\ processing_progress[a].status = "failed"
       /\ processing_progress[b].status = "completed"

\* C24: a status poll is read-only: a step in which a poll is answered leaves
\* every progress record and every row (and every worker) as it was, and the
\* status, progress_percentage and result_text it answers are those of the
\* record it read, so polls with no worker step between them answer the same.
C24_PollIsReadOnly ==
    [][\A j \in JobIds :
          resp'[j] /= resp[j] =>
             /\ UNCHANGED <<processing_progress, db, job, pc, loc, calls, started>>
             /\ The(resp'[j]).code = 200 =>
                   LET answer == The(resp'[j])
                       stored == ExpectedStatus(j)
                   IN /\ answer.status = stored.status
                      /\ answer.progress_percentage = stored.progress_percentage
                      /\ answer.result_text = stored.result_text]_vars

\* a finished job was polled and the poll answered its stored result
C24_Witness ==
    \E j \in JobIds :
       /\ pc[j] = "done"
       /\ Polled(j)
       /\ The(resp[j]).status = "completed"
       /\ ~IsNone(The(resp[j]).result_text)
       /\ The(resp[j]).result_text = ExpectedStatus(j).result_text
       /\ HasRecord(j)

\* C25: a row is created 'pending' with progress 0, and its committed status
\* then only moves from pending to processing and from processing to
\* completed or to failed: it never returns to an earlier status and never
\* leaves 'pending' for a terminal status.
C25_StatusSequence ==
    [][\A j \in JobIds :
          /\ (j \notin DOMAIN db /\ j \in DOMAIN db') =>
                /\ db'[j].status = "pending"
                /\ db'[j].progress_percentage = 0
          /\ (j \in DOMAIN db /\ db'[j].status /= db[j].status) =>
                <<db[j].status, db'[j].status>> \in
                   {<<"pending", "processing">>, <<"processing", "completed">>,
                    <<"processing", "failed">>}]_vars

\* the errors a job-level primary collaborator of process_job_worker raises:
\* convert_text_to_speech (app.py:1080) and download_youtube_audio (1046)
PrimaryErrors ==
    {ExcText("Text-to-speech conversion failed"),
     ExcText("Failed to download YouTube audio")}

\* C26: when text-to-speech generation or the YouTube audio download raised in
\* process_job_worker, the job, once its worker has ended, is 'failed' with
\* error_message the raised error's text, no output format was rendered for
\* it and its progress is not 100.
C26_PrimaryFailureFailsJob ==
    \A j \in JobIds :
       (/\ inp[j].kind = "durable"
        /\ pc[j] \in {"done", "dead"}
        /\ loc[j].exc \in PrimaryErrors) =>
          /\ db[j].status = "failed"
          /\ db[j].error_message = Some(loc[j].exc)
          /\ calls[j].render = <<>>
          /\ db[j].progress_percentage /= 100

\* C27: in a durable job the stages run in sequence: 'completed' with
\* progress 100 is committed only after every requested output format has
\* been attempted exactly once in the requested order, and a rendering is
\* attempted only after the primary step and the AI transform have ended.
C27_RenderAllThenComplete ==
    \A j \in JobIds :
       inp[j].kind = "durable" =>
          /\ (j \in DOMAIN db /\ db[j].status = "completed") =>
                /\ db[j].progress_percentage = 100
                /\ calls[j].render = inp[j].output_formats
          /\ calls[j].render /= <<>> =>
                /\ pc[j] \in {"w_render", "w_complete", "w_except", "w_failed",
                              "done", "dead"}
                /\ IsSubsequence(calls[j].render, inp[j].output_formats)

\* C28: once a submission has returned the job_id of an in-memory job, every
\* later status poll for that id finds the job's progress record and is
\* answered from it, never with 'Job not found', whichever worker process
\* serves it; and progress records are never removed.
C28_AcceptedJobAlwaysFound ==
    [][\A j \in JobIds :
          /\ j \in DOMAIN processing_progress => j \in DOMAIN processing_progress'
          /\ (j \in DOMAIN processing_progress /\ Accepted(j) /\ resp'[j] /= resp[j]) =>
                The(resp'[j]) = InMemoryResponse(processing_progress[j])]_vars

\* C29: in every reachable state every job's progress, in its progress record,
\* in its committed row and in its worker's copy of the row, is an integer in
\* 0..100 (the progress callback being invoked with 0 <= processed_seconds <=
\* total_seconds).
C29_ProgressInRange ==
    \A j \in JobIds :
       /\ j \in DOMAIN processing_progress =>
             processing_progress[j].progress \in 0..100
       /\ j \in DOMAIN db => db[j].progress_percentage \in 0..100
       /\ ~IsNone(job[j]) => The(job[j]).progress_percentage \in 0..100

\* the callback of the last file's transcription wrote a value inside the
\* transcribe budget
C29_Witness ==
    \E j \in JobIds :
       /\ inp[j].kind = "audio"
       /\ pc[j] = "a_whisper"
       /\ loc[j].cur = total_files(j)
       /\ loc[j].processed > 0
       /\ processing_progress[j].progress = CallbackProgress(loc[j].processed, TotalSeconds)
       /\ processing_progress[j].progress \in 21..80

\* C30: send_to_whisper reports every failure to transcribe as a raised
\* error: a call that returns a result dictionary returns the text a backend
\* transcribed, never a placeholder or error message in its place.
C30_FailureIsRaised ==
    whisper.at = "returned" =>
       /\ whisper.produced
       /\ whisper.text = Transcribed(whisper.env)

(***************************************************************************)
(* C31: get_youtube_transcript never raises: a call that has ended has     *)
(* returned, and what it returned is either a success record holding text, *)
(* language and is_generated, or a record with success false and an error  *)
(* string.                                                                 *)
(***************************************************************************)
TranscriptResult == The(extraction.result)

C31_TranscriptNeverRaises ==
    /\ extraction.at /= "raised"
    /\ extraction.at = "returned" =>
          IF TranscriptResult.success
          THEN {"text", "language", "is_generated"} \subseteq DOMAIN TranscriptResult
          ELSE /\ "error" \in DOMAIN TranscriptResult
               /\ TranscriptResult.error \in Seq({"exc"} \X STRING)

\* a call whose fetch() raised has returned the failure record
C31_Witness ==
    /\ extraction.at = "returned"
    /\ extraction.env.fetch = "raises"
    /\ ~IsNone(extraction.transcript)
    /\ ~TranscriptResult.success
    /\ TranscriptResult.error = ExcText("CouldNotRetrieveTranscript")

(***************************************************************************)
(* C32: in the backend chain of send_to_whisper a failure of the preferred *)
(* backend (the local script, else the GPU server) alone never reaches the *)
(* caller: the local fallback is tried exactly once after it, the call     *)
(* raises only when that last fallback failed, and at most two backends    *)
(* are attempted per call.                                                 *)
(***************************************************************************)
PreferredBackends == {"local_script", "gpu_server"}

LocalBackends == {"gpu_python", "library"}

WhisperEnded == whisper.at \in {"returned", "raised"}

\* the preferred backend was run and raised
PreferredFailed ==
    /\ whisper.tried /= <<>>
    /\ \/ whisper.tried[1] = "local_script" /\ whisper.env.script = "fails"
       \/ whisper.tried[1] = "gpu_server" /\ whisper.env.gpu_server = "fails"

\* the backend run last raised
LastFailed ==
    /\ whisper.tried /= <<>>
    /\ \/ /\ whisper.tried[Len(whisper.tried)] = "gpu_python"
          /\ whisper.env.gpu_python = "fails"
       \/ /\ whisper.tried[Len(whisper.tried)] = "library"
          /\ whisper.env.faster_whisper = "fails"

C32_FallbackOnceThenRaise ==
    /\ Len(whisper.tried) <= 2
    /\ \A i \in 2..Len(whisper.tried) : whisper.tried[i] \notin PreferredBackends
    /\ (WhisperEnded /\ PreferredFailed) =>
          /\ Len(whisper.tried) = 2
          /\ whisper.tried[2] \in LocalBackends
    /\ (whisper.at = "raised" /\ whisper.env.file_exists) =>
          /\ whisper.tried[Len(whisper.tried)] \in LocalBackends
          /\ LastFailed

\* the GPU server failed, the library was tried after it and transcribed
C32_Witness ==
    /\ whisper.at = "returned"
    /\ whisper.tried = <<"gpu_server", "library">>
    /\ whisper.env.gpu_server = "fails"
    /\ whisper.produced

(***************************************************************************)
(* C33: in process_job_worker a failure of the optional AI block (the LLM  *)
(* reports success false, or the call, the OpenQM save or the markdown     *)
(* export raises) never fails the job and leaves result_text as the        *)
(* primary stage produced it; the '--- AI Analysis ---' section is         *)
(* appended only by the last step of a block in which nothing failed.      *)
(* Stated of every step of the block: none goes to the worker's exception  *)
(* handler, none but the appending step changes the row, and a step that   *)
(* ends the block in failure goes on to rendering with the row untouched.  *)
(***************************************************************************)
AiSteps == {"w_llm_call", "w_llm_save", "w_llm_export", "w_llm_append", "w_llm_except"}

C33_AiFailureLeavesJob ==
    [][pc[1] \in AiSteps =>
          /\ pc'[1] \in AiSteps \cup {"w_render_80"}
          /\ \/ job'[1] = job[1]
             \/ /\ pc[1] = "w_llm_append"
                /\ loc'[1].ai = "succeeded"
                /\ The(job'[1]).result_text =
                       Some(WithAnalysis(The(The(job[1]).result_text)))
          /\ loc'[1].ai = "failed" =>
                /\ pc'[1] = "w_render_80"
                /\ job'[1] = job[1]
                /\ loc'[1].result_files = loc[1].result_files]_vars

\* the markdown export of a job raised after the LLM had answered: the job is
\* completed with the text of the primary stage and no export among its files
C33_Witness ==
    /\ pc[1] = "done"
    /\ inp[1].kind = "durable" /\ inp[1].export_markdown
    /\ loc[1].ai = "failed"
    /\ calls[1].llm = 1
    /\ 1 \in DOMAIN db
    /\ db[1].status = "completed"
    /\ \A k \in 1..Len(The(db[1].result_text)) :
          The(db[1].result_text)[k][1] /= "analysis"
    /\ <<"export", "markdown">> \notin
          {loc[1].result_files[k] : k \in 1..Len(loc[1].result_files)}

(***************************************************************************)
(* C34: /api/process-text-with-ai answers with an error response, not      *)
(* success, whenever the LLM reports failure (success false), and on       *)
(* success its processed_text is the text the LLM produced.                *)
(***************************************************************************)
AiResponse == The(ai_request.response)

\* the handler has answered a request that reached process_text_with_llm
AiAnsweredAfterLlm ==
    ai_request.at = "responded" /\ ~IsNone(ai_request.processed_text)

LlmResult == The(ai_request.processed_text).value

C34_LlmFailureIsError ==
    AiAnsweredAfterLlm =>
       IF LlmResult.success
       THEN /\ AiResponse.status = 200
            /\ AiResponse.body.processed_text.type = "str"
            /\ AiResponse.body.processed_text.value = LlmResult.processed_text
       ELSE /\ AiResponse.status /= 200
            /\ "error" \in DOMAIN AiResponse.body

(***************************************************************************)
(* C35: for the same YouTube source, default options and the same          *)
(* collaborator outcomes, the in-memory path (process_youtube_async) and   *)
(* the durable path (process_job_worker) end in the same terminal status.  *)
(* Stated of job 1 on the in-memory path and job 2 on the durable path,    *)
(* both ended, whose every collaborator called on both paths answered the  *)
(* same, the durable-store calls of job 2 having succeeded.                *)
(***************************************************************************)
BothPathsEnded ==
    /\ inp[1].kind = "youtube" /\ pc[1] = "done"
    /\ DurableYoutubeJob(2) /\ pc[2] = "done"
    /\ 1 \in DOMAIN processing_progress /\ 2 \in DOMAIN db
    /\ ~DbFailed(2)

\* get_youtube_transcript answered the same; where both paths downloaded, the
\* download answered the same, and so did each transcription
SameCollaboratorOutcomes ==
    /\ loc[1].transcript = loc[2].transcript
    /\ (calls[1].download > 0 /\ calls[2].download > 0) =>
          /\ loc[1].n_audio = loc[2].n_audio
          /\ loc[1].transcribed = loc[2].transcribed

C35_PathsEndAlike ==
    (BothPathsEnded /\ SameCollaboratorOutcomes) =>
       processing_progress[1].status = db[2].status

=============================================================================
